---- MODULE Spec2Model ----
(***************************************************************************)
(* Build pipeline of se_agent (onboard_graph.py): the OnboardGraph state   *)
(* graph, its nodes and conditional edges, and the SQLite store they share.*)
(*                                                                         *)
(* A run is one execution of the compiled graph on a fresh thread.  Nodes  *)
(* execute in supersteps: the units a conditional edge dispatches with     *)
(* Send run in any order and the node behind the outgoing edge runs once   *)
(* after all of them.  An exception raised by a node or a unit ends the    *)
(* run ("failed"); no later node of the run executes.                      *)
(*                                                                         *)
(* The store is the committed content of store.db.  A connection that has  *)
(* executed INSERT/UPDATE/DELETE holds the write lock and works on a       *)
(* private copy until commit(); other connections read the committed       *)
(* content.  Time is a logical clock: CURRENT_TIMESTAMP is one more than   *)
(* the time of the last commit, and a commit advances the clock to it.     *)
(***************************************************************************)
EXTENDS Integers, Sequences, FiniteSets, TLC

\* ------------------------------------------------------------------ bounds
\* number of runs started in one behaviour
MaxRuns == 2
\* the same, where two repository keys are in play
MaxRunsKeys == 3
\* number of build runs before a localization run
MaxRunsAssist == 1

\* ------------------------------------------------------------- input sets
\* run slots; a sequential behaviour uses slot 1 only
Slots == {1, 2}
SeqSlots == {1}

\* Repository keys (url, src_folder, branch): the two keys share the url
KeyMain == [url |-> "u1", src_folder |-> <<"src">>, branch |-> "main"]
KeyDev == [url |-> "u1", src_folder |-> <<"src">>, branch |-> "dev"]
Keys == {KeyMain, KeyDev}

\* file paths, as their os.sep-separated segments
PathOrder == << <<"src", "a", "x">>, <<"src", "a", "y">>, <<"src", "z">> >>
Paths == { PathOrder[i] : i \in 1..Len(PathOrder) }
\* the paths of the repository a localization run is about
TwoPaths == { <<"src", "a", "x">>, <<"src", "z">> }
\* the path used where two keys are in play or runs overlap
OnePath == { <<"src", "a", "x">> }

\* file contents: "" stands for empty or whitespace-only text
Contents == {"", " ", "c1"}
\* the contents that are empty or hold only whitespace
BlankContents == {"", " "}
\* str.strip() left as it is
no_strip(file_content) == file_content
\* str.strip() on a content
strip(file_content) == IF file_content = " " THEN "" ELSE file_content

\* Python None for a directory; the default repo_id of OnboardState
NoDir == <<>>
NoRepoId == 0

\* ---------------------------------------------------------------- helpers
RECURSIVE SeqToSet(_)
SeqToSet(s) == IF s = <<>> THEN {} ELSE {Head(s)} \cup SeqToSet(Tail(s))

RECURSIVE FilterSeq(_, _)
\* the subsequence of s whose elements are in S
FilterSeq(s, S) ==
  IF s = <<>> THEN <<>>
  ELSE IF Head(s) \in S THEN <<Head(s)>> \o FilterSeq(Tail(s), S)
       ELSE FilterSeq(Tail(s), S)

\* the modified-path lists of update events: no path, one path of S, or one
\* path of D listed twice
ModifiedLists(S, D) ==
  {<<>>} \cup { <<p>> : p \in S } \cup { <<p, p>> : p \in D }

\* ------------------------------------------------------- package grouping
RECURSIVE CommonLen(_, _)
\* length of the common leading part of two segment lists
CommonLen(p, s) ==
  IF p = <<>> \/ s = <<>> \/ Head(p) # Head(s) THEN 0
  ELSE 1 + CommonLen(Tail(p), Tail(s))

\* os.path.relpath(path, start) on segment lists
RelPath(path, start) ==
  LET i == CommonLen(path, start)
      up == [k \in 1..(Len(start) - i) |-> ".."]
      rel == up \o SubSeq(path, i + 1, Len(path))
  IN IF rel = <<>> THEN <<".">> ELSE rel

\* the package a path is grouped under
PackageOf(file_path, src_folder) ==
  LET rel_path == RelPath(file_path, src_folder)
  IN IF Len(rel_path) > 1 THEN rel_path[1] ELSE "base"

RECURSIVE GroupInto(_, _, _)
\* pkg_dict as a list of [name, files] in insertion order
GroupInto(pkg_dict, filepaths, src_folder) ==
  IF filepaths = <<>> THEN pkg_dict
  ELSE LET file_path == Head(filepaths)
           package == PackageOf(file_path, src_folder)
           known == { i \in 1..Len(pkg_dict) : pkg_dict[i].name = package }
           next == IF known = {}
                   THEN Append(pkg_dict, [name |-> package, files |-> <<file_path>>])
                   ELSE [ i \in 1..Len(pkg_dict) |->
                          IF i \in known
                          THEN [pkg_dict[i] EXCEPT !.files = Append(@, file_path)]
                          ELSE pkg_dict[i] ]
       IN GroupInto(next, Tail(filepaths), src_folder)

group_by_top_level_packages(filepaths, src_folder) ==
  GroupInto(<<>>, filepaths, src_folder)

\* --------------------------------------------------------------- reducer
\* what a node returns for a reduced channel: items to add, or "delete"
Items(xs) == [kind |-> "items", items |-> xs]
Delete == [kind |-> "delete", items |-> <<>>]

\* the Python values the reducer is given and returns: None, a list, a
\* tuple, a set, a string, and the TypeError it raises
PyValue(type, items, members, text) ==
  [type |-> type, items |-> items, members |-> members, text |-> text]
PyNone == PyValue("None", <<>>, {}, "")
PyList(xs) == PyValue("list", xs, {}, "")
PyTuple(xs) == PyValue("tuple", xs, {}, "")
PySet(S) == PyValue("set", <<>>, S, "")
PyStr(text) == PyValue("str", <<>>, {}, text)
TypeError == PyValue("TypeError", <<>>, {}, "")
\* isinstance(v, Sequence) and "not v"
IsSequence(v) == v.type \in {"list", "tuple", "str"}
Falsy(v) == v.items = <<>> /\ v.members = {} /\ v.text = ""

\* a reducer that replaces the value (differs from add_or_delete)
add_or_replace(existing, new) ==
  IF new = PyStr("delete")
  THEN IF existing.type = "list" THEN PyList(<<>>) ELSE PySet({})
  ELSE IF Falsy(new) THEN existing ELSE new

add_or_delete(existing, new) ==
  IF new = PyStr("delete")
  THEN IF existing.type = "list" THEN PyList(<<>>) ELSE PySet({})
  ELSE LET existing1 == IF existing = PyNone
                        THEN IF IsSequence(new) THEN PyList(<<>>) ELSE PySet({})
                        ELSE existing
       IN IF Falsy(new) THEN existing1
          ELSE IF existing1.type = "list" /\ IsSequence(new)
               THEN PyList(existing1.items \o new.items)
          ELSE IF existing1.type = "set" /\ new.type = "set"
               THEN PySet(existing1.members \cup new.members)
          ELSE TypeError

\* a channel without a reducer: the value written last replaces the others
ReplaceChannel(existing, new) ==
  IF new.kind = "delete" THEN <<>> ELSE new.items

\* add_or_delete on a list channel
ReduceChannel(existing, new) ==
  add_or_delete(PyList(existing),
                IF new.kind = "delete" THEN PyStr("delete") ELSE PyList(new.items)).items

\* ------------------------------------------------------ markdown headings
\* a text is the list of its characters: "#", " ", "\n", a letter "t", and
\* "~" for a line that opens or closes a fenced code block
Chars == {"#", " ", "\n", "t", "~"}
\* the longest text
MaxTextLen == 5

RECURSIVE RunLen(_, _, _)
\* how many characters of S follow one another in text from position i
RunLen(text, i, S) ==
  IF i > Len(text) \/ text[i] \notin S THEN 0 ELSE 1 + RunLen(text, i + 1, S)

RECURSIVE RestOfLine(_, _)
\* (.*)$ : how many characters from position i to the end of the line
RestOfLine(text, i) ==
  IF i > Len(text) \/ text[i] = "\n" THEN 0 ELSE 1 + RestOfLine(text, i + 1)

RECURSIVE ShiftFrom(_, _, _, _)
\* re.sub(r'^(#+)\s+(.*)$', replacer, content, flags=re.MULTILINE) from
\* position i on; line_start says that ^ matches at i
ShiftFrom(content, i, line_start, increment) ==
  IF i > Len(content) THEN <<>>
  ELSE LET hashes == RunLen(content, i, {"#"})
           spaces == RunLen(content, i + hashes, {" ", "\n"})
           from == i + hashes + spaces
           rest == RestOfLine(content, from)
       IN IF line_start /\ hashes > 0 /\ spaces > 0
          THEN [k \in 1..(hashes + increment) |-> "#"] \o <<" ">>
                 \o SubSeq(content, from, from + rest - 1)
                 \o ShiftFrom(content, from + rest, FALSE, increment)
          ELSE <<content[i]>>
                 \o ShiftFrom(content, i + 1, content[i] = "\n", increment)

shift_markdown_headings(content, increment) ==
  ShiftFrom(content, 1, TRUE, increment)

\* all texts of at most n characters
RECURSIVE TextsUpTo(_)
TextsUpTo(n) ==
  IF n = 0 THEN {<<>>}
  ELSE LET shorter == TextsUpTo(n - 1)
       IN shorter \cup { Append(t, c) : t \in shorter, c \in Chars }

\* no helper function was called
NoCall == [fn |-> "none", done |-> FALSE, arg |-> <<>>, out |-> <<>>]

\* ------------------------------------------------- summarization capability
\* file summary of a non-empty content
FileSummaryText(file_content) == "s(" \o file_content \o ")"

\* SQL NULL in packages.summary, and a generated package summary: the model's
\* answer to the package name and the corpus of (path, summary) it was shown
NullSummary == [null |-> TRUE, package_name |-> "", corpus |-> {}]
PackageSummaryText(package_name, corpus) ==
  [null |-> FALSE, package_name |-> package_name, corpus |-> corpus]

\* ------------------------------------------------------------------ store
EmptyDb ==
  [ tables |-> FALSE, repositories |-> {}, packages |-> {}, files |-> {},
    seq_repo |-> 0, seq_pkg |-> 0, seq_file |-> 0 ]

\* CREATE TABLE IF NOT EXISTS repositories / packages / files
CreateTables(db) == [db EXCEPT !.tables = TRUE]

\* SELECT repo_id FROM repositories WHERE url = ?
SelectRepoByUrl(db, url) == { r \in db.repositories : r.url = url }

\* SELECT repo_id FROM repositories WHERE url = ? AND src_path = ? AND branch = ?
SelectRepoByKey(db, key) ==
  { r \in db.repositories :
      r.url = key.url /\ r.src_path = key.src_folder /\ r.branch = key.branch }

\* SELECT package_id FROM files WHERE repo_id = ? AND file_path IN (...)
PackageIdsOfFiles(db, repo_id, file_paths) ==
  { f.package_id : f \in { g \in db.files :
                             g.repo_id = repo_id /\ g.file_path \in file_paths } }

\* an update that leaves the rows of the deleted paths in place
DeleteNoFiles(db, repo_id, file_paths) == db

\* DELETE FROM files WHERE repo_id = ? AND file_path IN (...)
DeleteFiles(db, repo_id, file_paths) ==
  [db EXCEPT !.files =
     { f \in @ : ~(f.repo_id = repo_id /\ f.file_path \in file_paths) }]

\* SELECT DISTINCT package_id FROM files WHERE repo_id = ?
PackageIdsWithFiles(db, repo_id) ==
  { f.package_id : f \in { g \in db.files : g.repo_id = repo_id } }

\* DELETE FROM packages WHERE repo_id = ? [AND package_id NOT IN (...)]
DeleteOrphanPackages(db, repo_id, remaining) ==
  IF remaining # {}
  THEN [db EXCEPT !.packages =
          { p \in @ : ~(p.repo_id = repo_id /\ p.package_id \notin remaining) }]
  ELSE [db EXCEPT !.packages = { p \in @ : p.repo_id # repo_id }]

\* UPDATE packages SET last_modified_at = CURRENT_TIMESTAMP WHERE ... IN (...)
TouchPackages(db, repo_id, package_ids, now) ==
  [db EXCEPT !.packages =
     { IF p.repo_id = repo_id /\ p.package_id \in package_ids
       THEN [p EXCEPT !.last_modified_at = now] ELSE p : p \in @ }]

\* UPDATE repositories SET last_modified_at = CURRENT_TIMESTAMP WHERE repo_id = ?
TouchRepository(db, repo_id, now) ==
  [db EXCEPT !.repositories =
     { IF r.repo_id = repo_id THEN [r EXCEPT !.last_modified_at = now] ELSE r
       : r \in @ }]

\* a repositories table without a uniqueness constraint
NeverViolated(db, key) == FALSE

\* UNIQUE(url, src_path, branch): an INSERT of a key that has a row fails
UniqueKeyViolated(db, key) == SelectRepoByKey(db, key) # {}

\* INSERT INTO repositories (url, src_path, branch, last_modified_at)
InsertRepository(db, key, now) ==
  [db EXCEPT !.seq_repo = @ + 1,
             !.repositories = @ \cup
               {[ repo_id |-> db.seq_repo + 1, url |-> key.url,
                  src_path |-> key.src_folder, branch |-> key.branch,
                  created_at |-> now, last_modified_at |-> now ]}]

\* a lookup that never finds the row
SelectNoPackage(db, repo_id, package_name) == {}

\* SELECT package_id FROM packages WHERE repo_id = ? AND package_name = ?
SelectPackageByName(db, repo_id, package_name) ==
  { p \in db.packages : p.repo_id = repo_id /\ p.package_name = package_name }

\* INSERT INTO packages (repo_id, package_name, summary, last_modified_at)
InsertPackage(db, repo_id, package_name, now) ==
  [db EXCEPT !.seq_pkg = @ + 1,
             !.packages = @ \cup
               {[ package_id |-> db.seq_pkg + 1, repo_id |-> repo_id,
                  package_name |-> package_name, summary |-> NullSummary,
                  created_at |-> now, last_modified_at |-> now ]}]

\* a plain INSERT INTO files, without the ON CONFLICT clause and without the
\* UNIQUE constraint
InsertFileAlways(db, repo_id, package_id, file_path, summary, now) ==
  [db EXCEPT !.seq_file = @ + 1,
             !.files = @ \cup
               {[ file_id |-> db.seq_file + 1, repo_id |-> repo_id,
                  package_id |-> package_id, file_path |-> file_path,
                  summary |-> summary,
                  created_at |-> now, last_modified_at |-> now ]}]

\* INSERT INTO files ... ON CONFLICT(repo_id, package_id, file_path) DO UPDATE
UpsertFile(db, repo_id, package_id, file_path, summary, now) ==
  LET hit == { f \in db.files : f.repo_id = repo_id /\ f.package_id = package_id
                                /\ f.file_path = file_path }
  IN IF hit = {}
     THEN [db EXCEPT !.seq_file = @ + 1,
                     !.files = @ \cup
                       {[ file_id |-> db.seq_file + 1, repo_id |-> repo_id,
                          package_id |-> package_id, file_path |-> file_path,
                          summary |-> summary,
                          created_at |-> now, last_modified_at |-> now ]}]
     ELSE [db EXCEPT !.files =
             { IF f \in hit
               THEN [f EXCEPT !.summary = summary, !.last_modified_at = now]
               ELSE f : f \in @ }]

\* UPDATE packages SET summary = ?, last_modified_at = CURRENT_TIMESTAMP
UpdatePackageSummary(db, repo_id, package_id, summary, now) ==
  [db EXCEPT !.packages =
     { IF p.repo_id = repo_id /\ p.package_id = package_id
       THEN [p EXCEPT !.summary = summary, !.last_modified_at = now] ELSE p
       : p \in @ }]

\* SELECT file_path, summary FROM files WHERE repo_id = ? AND package_id = ?
FileRowsOf(db, repo_id, package_id) ==
  { <<f.file_path, f.summary>> :
      f \in { g \in db.files : g.repo_id = repo_id /\ g.package_id = package_id } }

\* SELECT package_name FROM packages WHERE repo_id = ? AND package_id = ?
PackageRowsOf(db, repo_id, package_id) ==
  { p \in db.packages : p.repo_id = repo_id /\ p.package_id = package_id }

\* INSERT/ON CONFLICT for every collected summary whose path is in file_list
RECURSIVE WriteFileSummaries(_, _, _, _, _, _)
WriteFileSummaries(db, repo_id, package_id, file_summaries, file_list, now) ==
  IF file_summaries = <<>> THEN db
  ELSE LET fsum == Head(file_summaries)
           db1 == IF fsum.filepath \in SeqToSet(file_list)
                  THEN UpsertFile(db, repo_id, package_id, fsum.filepath,
                                  fsum.summary, now)
                  ELSE db
       IN WriteFileSummaries(db1, repo_id, package_id, Tail(file_summaries),
                             file_list, now)

\* the loop over pkg_dict.items(): insert or fetch the package row, append
\* its id to packages_impacted, write the package's file summaries
RECURSIVE WritePackages(_, _, _, _, _, _)
WritePackages(db, repo_id, pkg_dict, file_summaries, now, packages_impacted) ==
  IF pkg_dict = <<>>
  THEN [db |-> db, packages_impacted |-> packages_impacted]
  ELSE LET pkg_name == Head(pkg_dict).name
           file_list == Head(pkg_dict).files
           pkg_row == SelectPackageByName(db, repo_id, pkg_name)
           package_id == IF pkg_row = {} THEN db.seq_pkg + 1
                         ELSE (CHOOSE p \in pkg_row : TRUE).package_id
           db1 == IF pkg_row = {} THEN InsertPackage(db, repo_id, pkg_name, now)
                  ELSE db
           db2 == WriteFileSummaries(db1, repo_id, package_id, file_summaries,
                                     file_list, now)
       IN WritePackages(db2, repo_id, Tail(pkg_dict), file_summaries, now,
                        Append(packages_impacted, package_id))

\* the loop of save_package_summaries over state.package_summaries
RECURSIVE WritePackageSummaries(_, _, _, _)
WritePackageSummaries(db, repo_id, package_summaries, now) ==
  IF package_summaries = <<>> THEN db
  ELSE LET psum == Head(package_summaries)
       IN WritePackageSummaries(
            UpdatePackageSummary(db, repo_id, psum.package_id, psum.summary, now),
            repo_id, Tail(package_summaries), now)

\* a store without transactions: every statement is visible at once
PublishedAtOnce(committed, working) == working

\* what other connections see while a connection has executed statements
\* without commit(): the committed content
Published(committed, working) == committed

\* ------------------------------------------------------------- run state
NoKey == [url |-> "", src_folder |-> <<>>, branch |-> ""]
NoEvent == [event_type |-> "none", key |-> NoKey, modified |-> <<>>, deleted |-> {}]

\* value of the packages_impacted channel: a collection of package ids, or
\* the literal a node stored in the channel
Coll(ids) == [literal |-> "", ids |-> ids]
Literal(str) == [literal |-> str, ids |-> {}]
\* Python truthiness of a channel value
Truthy(v) == v.literal # "" \/ v.ids # {}

\* OnboardState with its defaults
DefaultState ==
  [ repo_event |-> NoEvent, repo_id |-> NoRepoId, repo_dir |-> NoDir,
    filepaths |-> <<>>, file_summaries |-> <<>>, file_summary_errors |-> <<>>,
    packages_impacted |-> Coll({}), package_summaries |-> <<>>,
    package_summary_errors |-> <<>> ]

\* local variables of handle_update and save_file_summaries
DefaultLocals ==
  [ repo_id |-> NoRepoId, row |-> NoRepoId,
    package_ids_with_file_deletes |-> {},
    package_ids_with_files_remaining |-> {},
    package_ids_with_files_deleted_and_remaining |-> {} ]

\* what a run has done so far (not program state)
DefaultHistory ==
  [ mode |-> "none", key |-> NoKey, modified |-> <<>>, deleted |-> {},
    acquired |-> NoDir, cleaned |-> FALSE,
    impacted_by_deletion |-> {}, touched_by_writes |-> {},
    write_done |-> FALSE,
    file_units |-> 0, sfs_started |-> FALSE, sps_started |-> FALSE,
    dispatched_pkgs |-> {}, persisted |-> {},
    raised_files |-> {}, raised_pkgs |-> {}, resolved |-> NoRepoId,
    unknown_key |-> FALSE, changed |-> FALSE, pruned |-> {}, blank_files |-> {},
    fetched_remote |-> {}, read_local |-> {} ]

\* the directory create_local_repo_dir derives from url and branch
LocalRepoDir(key) == <<key.url, key.branch>>

\* events a run can be started with, for the keys and the paths in play
OnboardEvents(keys) ==
  { [event_type |-> "repo-onboard", key |-> k, modified |-> <<>>, deleted |-> {}]
    : k \in keys }
UpdateEvents(keys, paths, twice) ==
  { [event_type |-> "repo-update", key |-> k, modified |-> m, deleted |-> d]
    : k \in keys, m \in ModifiedLists(paths, twice), d \in SUBSET paths }
Events(keys, paths, twice) ==
  OnboardEvents(keys) \cup UpdateEvents(keys, paths, twice)
\* events whose event_type is neither of the two
OtherEvents(keys) ==
  { [event_type |-> "repo-delete", key |-> k, modified |-> <<>>, deleted |-> {}]
    : k \in keys }

\* File and Package rows without their last-modified times
RowsModuloTime(db) ==
  [ files |-> { [file_id |-> f.file_id, repo_id |-> f.repo_id,
                 package_id |-> f.package_id, file_path |-> f.file_path,
                 summary |-> f.summary, created_at |-> f.created_at]
                : f \in db.files },
    packages |-> { [package_id |-> p.package_id, repo_id |-> p.repo_id,
                    package_name |-> p.package_name, summary |-> p.summary,
                    created_at |-> p.created_at] : p \in db.packages } ]

\* nothing recorded about a previous run
NoPrior == [completed |-> FALSE, rows |-> RowsModuloTime(EmptyDb), units |-> <<>>]

\* ------------------------------------------------------------- webhook
\* file names of a push payload, as the pieces of their text; "" is <<>>
NoFilename == <<>>
Filenames ==
  { <<"src", "/", "a", ".py">>, <<"src", "/", "b", ".py">>,
    <<"src", "/", "r", ".md">>, <<"src", "2", "/", "a", ".py">>,
    <<"docs", "/", "a", ".py">> }

\* str.startswith
startswith(str, prefix) ==
  Len(prefix) <= Len(str) /\ SubSeq(str, 1, Len(prefix)) = prefix

\* is_valid_file of compute_delta
is_valid_file(filepath, repo) == startswith(filepath, repo.src_folder)

\* the entries of head_commit["renamed"]: dicts (filename, and
\* previous_filename or its default "") or strings
RenamedDict(new_filename, prev_filename) ==
  [is_dict |-> TRUE, filename |-> new_filename, previous_filename |-> prev_filename]
RenamedStr(item) ==
  [is_dict |-> FALSE, filename |-> item, previous_filename |-> NoFilename]
RenamedItems ==
  { RenamedDict(n, o) : n \in Filenames, o \in Filenames \cup {NoFilename} }
    \cup { RenamedStr(f) : f \in Filenames }

\* what one entry of "renamed" appends to modified only: the old name is
\* not deleted
RenamedNewOnly(item, repo) ==
  [ modified |-> IF is_valid_file(item.filename, repo)
                 THEN <<item.filename>> ELSE <<>>,
    deleted |-> <<>> ]

\* what one entry of "renamed" appends to modified and to deleted
RenamedDelta(item, repo) ==
  IF item.is_dict
  THEN [ modified |-> IF is_valid_file(item.filename, repo)
                      THEN <<item.filename>> ELSE <<>>,
         deleted |-> IF item.previous_filename # NoFilename
                        /\ is_valid_file(item.previous_filename, repo)
                     THEN <<item.previous_filename>> ELSE <<>> ]
  ELSE [ modified |-> IF is_valid_file(item.filename, repo)
                      THEN <<item.filename>> ELSE <<>>,
         deleted |-> <<>> ]

RECURSIVE ValidFiles(_, _)
\* [f for f in files if is_valid_file(f)]
ValidFiles(files, repo) ==
  IF files = <<>> THEN <<>>
  ELSE (IF is_valid_file(Head(files), repo) THEN <<Head(files)>> ELSE <<>>)
         \o ValidFiles(Tail(files), repo)

RECURSIVE RenamedDeltas(_, _)
RenamedDeltas(renamed_files, repo) ==
  IF renamed_files = <<>> THEN [modified |-> <<>>, deleted |-> <<>>]
  ELSE LET one == RenamedDelta(Head(renamed_files), repo)
           rest == RenamedDeltas(Tail(renamed_files), repo)
       IN [ modified |-> one.modified \o rest.modified,
            deleted |-> one.deleted \o rest.deleted ]

compute_delta(head_commit, repo) ==
  LET renamed == RenamedDeltas(head_commit.renamed, repo)
  IN [ modified |-> ValidFiles(head_commit.added, repo)
                      \o ValidFiles(head_commit.modified, repo)
                      \o renamed.modified,
       deleted |-> ValidFiles(head_commit.removed, repo) \o renamed.deleted ]

\* lists of at most one element of S
UpToOne(S) == {<<>>} \cup { <<x>> : x \in S }

\* the head_commit of the push payloads
HeadCommits ==
  [ added : UpToOne(Filenames), modified : UpToOne(Filenames),
    removed : UpToOne(Filenames), renamed : UpToOne(RenamedItems) ]

NoDelta == [modified |-> <<>>, deleted |-> <<>>]
NoHeadCommit == [added |-> <<>>, modified |-> <<>>, removed |-> <<>>, renamed |-> <<>>]
\* no push was received
NoPush ==
  [ pc |-> "idle", kind |-> "none", url |-> "", ref |-> <<>>, head |-> NoHeadCommit,
    repo |-> NoKey, event |-> [event_type |-> "none", meta_data |-> NoDelta],
    action |-> "", title |-> <<>>, body |-> <<>>, token |-> FALSE,
    applied |-> FALSE, result |-> <<>>, commented |-> FALSE ]

\* SE_AGENT_USER_ID
SE_AGENT_USER_ID == "heurisdev"
\* the words of issue titles and bodies, and str.lower() on a word
Words == {"bug", "heurisdev", "HeurisDev"}
lower(word) ==
  CASE word = "HeurisDev" -> "heurisdev"
    [] word = "Context Length" -> "context length"
    [] word = "Token Limit" -> "token limit"
    [] OTHER -> word
\* should_process_event: SE_AGENT_USER_ID in text.lower(); the variant
\* before it compares the text as it is written
should_process_event_exact(text) == \E i \in DOMAIN text : text[i] = SE_AGENT_USER_ID
should_process_event(text) ==
  \E i \in DOMAIN text : lower(text[i]) = SE_AGENT_USER_ID
\* the messages a run of the agent can end with: none, or a last message
\* with its type and content ("" when empty)
AgentResults ==
  {<<>>} \cup { <<[type |-> t, content |-> c]>> : t \in {"ai", "human"},
                                                  c \in {"", "answer"} }
\* extract_agent_response: the content of the last message if it is of type
\* 'ai', else None (<<>> here, and <<content>> for a content)
extract_agent_response(result) ==
  IF result # <<>> /\ result[Len(result)].type = "ai"
  THEN <<result[Len(result)].content>> ELSE <<>>

\* f"refs/heads/{branch}", as the segments of the ref
BranchRef(branch) == <<"refs", "heads", branch>>
\* a handler that takes a push to any ref
on_any_ref(ref, repo) == TRUE
\* data.get("ref") == f"refs/heads/{repo['branch']}"
on_onboarded_branch(ref, repo) == ref = BranchRef(repo.branch)
\* repository.html_url of the payloads ("" when it is missing) and their refs
PushUrls == {"", "u1", "u2"}
PushRefs == { BranchRef("main"), BranchRef("dev"), BranchRef("other"),
              <<"refs", "tags", "main">> }

\* a package name the ranking capability can answer that no Package row has
UnknownPackage == "other"

\* Optional values: None, or the value
None == {}
Some(v) == {v}
The(opt) == CHOOSE v \in opt : TRUE

\* State of assist_graph with its defaults, the node the run is at, and what
\* the run has done (stage1, stage2, packages_returned, corpus, fetch_failed,
\* fetch_raised, code_files, solved, cleaned are not program state)
DefaultAssist ==
  [ pc |-> "idle", repo |-> NoKey, repo_id |-> NoRepoId,
    package_suggestions |-> Some({}), package_name_index |-> Some({}),
    file_suggestions |-> Some(<<>>), file_contents |-> <<>>,
    units |-> <<>>,
    stage1 |-> FALSE, stage2 |-> FALSE, packages_returned |-> {},
    corpus |-> {}, fetch_failed |-> {}, fetch_raised |-> {},
    code_files |-> <<>>, solved |-> FALSE, cleaned |-> FALSE ]

VARIABLES
  store,    \* committed content of store.db
  work,     \* private copy of the connection holding the write lock
  lock,     \* slot holding the write lock, 0 when free
  clock,    \* logical time
  disk,     \* directories under tmp/ that exist
  started,  \* number of runs started
  pc,       \* pc[r]: node the run in slot r is at
  st,       \* st[r]: OnboardState of the run
  funits,   \* funits[r]: generate_file_summary units dispatched (Send)
  punits,   \* punits[r]: generate_package_summary units dispatched (Send)
  loc,      \* loc[r]: locals of the node in progress
  hist,     \* hist[r]: what the run has done so far
  aborted,  \* some run of the behaviour has failed
  prior,    \* the rows and the previous run's units when a repeated run began
  assist,   \* the AssistGraph run: its node, its State, what it has done
  hook,     \* the push event the webhook received and the event it built
  call      \* a call of a helper function: its arguments and what it returned

vars == <<store, work, lock, clock, disk, started, pc, st, funits, punits, loc,
          hist, aborted, prior, assist, hook, call>>

\* no run was started and the store file does not exist
InitRunsOver(db) ==
  /\ store = db
  /\ work = db
  /\ lock = 0
  /\ clock = 0
  /\ disk = {}
  /\ started = 0
  /\ pc = [r \in Slots |-> "idle"]
  /\ st = [r \in Slots |-> DefaultState]
  /\ funits = [r \in Slots |-> <<>>]
  /\ punits = [r \in Slots |-> <<>>]
  /\ loc = [r \in Slots |-> DefaultLocals]
  /\ hist = [r \in Slots |-> DefaultHistory]
  /\ aborted = FALSE
  /\ prior = NoPrior
  /\ assist = DefaultAssist
InitRuns == InitRunsOver(EmptyDb)

Init ==
  /\ InitRuns
  /\ hook = NoPush
  /\ call = NoCall

\* ------------------------------------------------------ conditional edges
\* a list of Send: the target node and one argument per unit
Sends(node, files, pkgs) == [node |-> node, files |-> files, pkgs |-> pkgs]

continue_to_save_package_summaries(state) ==
  Sends("generate_package_summary", <<>>, state.packages_impacted.ids)

continue_to_save_file_summaries(state) ==
  IF state.filepaths = <<>> /\ Truthy(state.packages_impacted)
  THEN continue_to_save_package_summaries(state)
  ELSE Sends("generate_file_summary", state.filepaths, {})

\* the node the run is at after a conditional edge returned sends: with no
\* Send there is no next task and the run ends
NextNode(sends) ==
  IF sends.files = <<>> /\ sends.pkgs = {} THEN "END" ELSE sends.node

\* the tasks of a superstep: each has the argument of its Send, and once it
\* has run, the value it returned for its reduced channel
FileUnits(sends) ==
  [i \in 1..Len(sends.files) |->
     [filepath |-> sends.files[i], status |-> "pending", result |-> <<>>]]

PkgUnits(sends) == [p \in sends.pkgs |-> [status |-> "pending", result |-> <<>>]]

RECURSIVE ReduceFileUnits(_, _, _)
\* the writes of the file units, applied to the channel in task order when
\* the superstep ends
ReduceFileUnits(existing, units, i) ==
  IF i > Len(units) THEN existing
  ELSE ReduceFileUnits(ReduceChannel(existing, Items(units[i].result)), units, i + 1)

RECURSIVE ReducePkgUnits(_, _, _)
\* the writes of the package units (tasks are ordered as they were sent:
\* here by package id)
ReducePkgUnits(existing, units, todo) ==
  IF todo = {} THEN existing
  ELSE LET p == CHOOSE x \in todo : \A y \in todo : x <= y
       IN ReducePkgUnits(ReduceChannel(existing, Items(units[p].result)),
                         units, todo \ {p})

\* an edge that fires as soon as one unit has run
FanInOnFirst(units) == \E u \in DOMAIN units : units[u].status = "done"

\* builder.add_edge(fan-out node, fan-in node): the fan-in node runs in the
\* superstep after the one in which every dispatched unit ran
FanInReady(units) == \A u \in DOMAIN units : units[u].status = "done"

\* ---------------------------------------------------------------- actions
\* event_type == "repo-update" in generate_file_summary
from_github(state) == state.repo_event.event_type = "repo-update"

\* an entry edge that takes every event type but "repo-update" for an onboarding
decide_onboarding_unless_update(state) ==
  IF state.repo_event.event_type = "repo-update" THEN "handle_update"
  ELSE "get_filepaths"

\* the conditional entry edge of the graph; ValueError fails the run
decide_onboarding_or_update(state) ==
  LET event_type == state.repo_event.event_type
  IN IF event_type = "repo-onboard" THEN "get_filepaths"
     ELSE IF event_type = "repo-update" THEN "handle_update"
     ELSE "failed"

\* a run is submitted on a fresh thread with the event as its input and takes
\* the entry edge; the slot of a run that has ended or failed is free
StartRun(r, events, max_runs) ==
  /\ pc[r] \in {"idle", "END", "failed"}
  /\ started < max_runs
  /\ \E ev \in events :
       LET state == [DefaultState EXCEPT !.repo_event = ev]
       IN /\ st' = [st EXCEPT ![r] = state]
          /\ pc' = [pc EXCEPT ![r] = decide_onboarding_or_update(state)]
          /\ hist' = [hist EXCEPT ![r] =
                        [DefaultHistory EXCEPT
                           !.mode = ev.event_type, !.key = ev.key,
                           !.modified = ev.modified, !.deleted = ev.deleted,
                           !.unknown_key = (SelectRepoByKey(store, ev.key) = {})]]
  /\ started' = started + 1
  /\ funits' = [funits EXCEPT ![r] = <<>>]
  /\ punits' = [punits EXCEPT ![r] = <<>>]
  /\ loc' = [loc EXCEPT ![r] = DefaultLocals]
  /\ aborted' = (aborted \/ pc'[r] = "failed")
  /\ UNCHANGED <<store, work, lock, clock, disk>>

\* the exception of clone_repository is swallowed and the run goes on as
\* after an enumeration that found nothing
get_filepaths_clone_ignored(r) ==
  /\ pc[r] = "get_filepaths"
  /\ disk' = disk \cup {LocalRepoDir(st[r].repo_event.key)}
  /\ pc' = [pc EXCEPT ![r] = "END"]
  /\ UNCHANGED <<store, work, lock, clock, started, st, funits, punits, loc, hist,
                 aborted>>

\* clone_repository raises: the directory was created, the run fails
get_filepaths_clone_fails(r) ==
  /\ pc[r] = "get_filepaths"
  /\ disk' = disk \cup {LocalRepoDir(st[r].repo_event.key)}
  /\ pc' = [pc EXCEPT ![r] = "failed"]
  /\ aborted' = TRUE
  /\ UNCHANGED <<store, work, lock, clock, started, st, funits, punits, loc, hist>>

get_filepaths(r, paths) ==
  /\ pc[r] = "get_filepaths"
  /\ \E found \in SUBSET paths :
       LET repo_dir == LocalRepoDir(st[r].repo_event.key)
           filepaths == FilterSeq(PathOrder, found)
           state == [st[r] EXCEPT
                       !.filepaths = ReduceChannel(@, Items(filepaths)),
                       !.repo_dir = repo_dir]
           sends == continue_to_save_file_summaries(state)
       IN /\ disk' = disk \cup {repo_dir}
          /\ st' = [st EXCEPT ![r] = state]
          /\ pc' = [pc EXCEPT ![r] = NextNode(sends)]
          /\ funits' = [funits EXCEPT ![r] = FileUnits(sends)]
          /\ punits' = [punits EXCEPT ![r] = PkgUnits(sends)]
          /\ hist' = [hist EXCEPT ![r].acquired = repo_dir,
                                  ![r].file_units = Len(sends.files),
                                  ![r].dispatched_pkgs = sends.pkgs]
  /\ UNCHANGED <<store, work, lock, clock, started, loc, aborted>>

\* handle_update up to the first DELETE/UPDATE: the two SELECTs
handle_update(r) ==
  /\ pc[r] = "handle_update"
  /\ LET ev == st[r].repo_event
         rows == SelectRepoByUrl(store, ev.key.url)
     IN IF ~store.tables
        THEN \* no such table: repositories
             /\ pc' = [pc EXCEPT ![r] = "failed"]
             /\ aborted' = TRUE
             /\ UNCHANGED <<st, funits, punits, loc, hist>>
        ELSE IF rows = {}
        THEN \* return {"filepaths": []}
             LET state == [st[r] EXCEPT !.filepaths = ReduceChannel(@, Items(<<>>))]
                 sends == continue_to_save_file_summaries(state)
             IN /\ st' = [st EXCEPT ![r] = state]
                /\ pc' = [pc EXCEPT ![r] = NextNode(sends)]
                /\ funits' = [funits EXCEPT ![r] = FileUnits(sends)]
                /\ punits' = [punits EXCEPT ![r] = PkgUnits(sends)]
                /\ hist' = [hist EXCEPT ![r].file_units = Len(sends.files),
                                        ![r].dispatched_pkgs = sends.pkgs]
                /\ UNCHANGED <<loc, aborted>>
        ELSE \E row \in rows :
               /\ loc' = [loc EXCEPT ![r] =
                            [DefaultLocals EXCEPT
                               !.repo_id = row.repo_id,
                               !.package_ids_with_file_deletes =
                                  IF ev.deleted # {}
                                  THEN PackageIdsOfFiles(store, row.repo_id, ev.deleted)
                                  ELSE {}]]
               /\ pc' = [pc EXCEPT ![r] =
                           IF ev.deleted # {} THEN "handle_update_delete"
                           ELSE "handle_update_commit"]
               /\ hist' = [hist EXCEPT ![r].resolved = row.repo_id]
               /\ UNCHANGED <<st, funits, punits, aborted>>
  /\ UNCHANGED <<store, work, lock, clock, disk, started>>

\* DELETE FROM files ...: the connection's transaction begins
handle_update_delete(r) ==
  /\ pc[r] = "handle_update_delete"
  /\ lock = 0
  /\ LET db == DeleteFiles(store, loc[r].repo_id, st[r].repo_event.deleted)
     IN /\ work' = db
        /\ store' = Published(store, db)
  /\ lock' = r
  /\ pc' = [pc EXCEPT ![r] = "handle_update_prune"]
  /\ UNCHANGED <<clock, disk, started, st, funits, punits, loc, hist, aborted>>

\* SELECT DISTINCT package_id ...; DELETE FROM packages ...; touched &
\* remaining; UPDATE packages SET last_modified_at ...
handle_update_prune(r) ==
  /\ pc[r] = "handle_update_prune"
  /\ lock = r
  /\ LET remaining == PackageIdsWithFiles(work, loc[r].repo_id)
         db1 == DeleteOrphanPackages(work, loc[r].repo_id, remaining)
         impacted == loc[r].package_ids_with_file_deletes \cap remaining
         db2 == IF impacted # {}
                THEN TouchPackages(db1, loc[r].repo_id, impacted, clock + 1)
                ELSE db1
     IN /\ work' = db2
        /\ store' = Published(store, db2)
        /\ loc' = [loc EXCEPT
                     ![r].package_ids_with_files_remaining = remaining,
                     ![r].package_ids_with_files_deleted_and_remaining = impacted]
  /\ pc' = [pc EXCEPT ![r] = "handle_update_commit"]
  /\ UNCHANGED <<lock, clock, disk, started, st, funits, punits, hist, aborted>>

\* UPDATE repositories SET last_modified_at ...; commit; return
handle_update_commit(r) ==
  /\ pc[r] = "handle_update_commit"
  /\ lock \in {0, r}
  /\ LET now == clock + 1
         db == TouchRepository(IF lock = r THEN work ELSE store, loc[r].repo_id, now)
         impacted == loc[r].package_ids_with_files_deleted_and_remaining
         state == [st[r] EXCEPT
                     !.repo_id = loc[r].repo_id,
                     !.filepaths = ReduceChannel(@, Items(st[r].repo_event.modified)),
                     !.packages_impacted = Coll(impacted)]
         sends == continue_to_save_file_summaries(state)
     IN /\ store' = db
        /\ work' = db
        /\ clock' = now
        /\ st' = [st EXCEPT ![r] = state]
        /\ pc' = [pc EXCEPT ![r] = NextNode(sends)]
        /\ funits' = [funits EXCEPT ![r] = FileUnits(sends)]
        /\ punits' = [punits EXCEPT ![r] = PkgUnits(sends)]
        /\ hist' = [hist EXCEPT
                      ![r].impacted_by_deletion = impacted,
                      ![r].pruned = { p.package_id : p \in store.packages \ db.packages }
                                      \ { p.package_id : p \in db.packages },
                      ![r].changed = TRUE,
                      ![r].file_units = Len(sends.files),
                      ![r].dispatched_pkgs = sends.pkgs]
  /\ lock' = 0
  /\ UNCHANGED <<disk, started, loc, aborted>>

\* one unit of the file fan-out: fetch the content (from GitHub for an
\* update, from the clone otherwise; a clone that is gone cannot be read),
\* summarize it
generate_file_summary(r, i) ==
  /\ pc[r] = "generate_file_summary"
  /\ i \in DOMAIN funits[r]
  /\ funits[r][i].status = "pending"
  /\ from_github(st[r]) \/ st[r].repo_dir \in disk
  /\ \E file_content \in Contents :
       LET filepath == funits[r][i].filepath
           blank == strip(file_content) = ""
           result == IF blank THEN <<>>
                     ELSE << [filepath |-> filepath,
                              summary |-> FileSummaryText(file_content)] >>
       IN /\ funits' = [funits EXCEPT ![r][i].status = "done", ![r][i].result = result]
          /\ hist' = [hist EXCEPT ![r].blank_files =
                                    IF file_content \in BlankContents
                                    THEN @ \cup {filepath} ELSE @,
                                  ![r].fetched_remote =
                                    IF from_github(st[r]) THEN @ \cup {filepath} ELSE @,
                                  ![r].read_local =
                                    IF from_github(st[r]) THEN @ ELSE @ \cup {filepath}]
  /\ UNCHANGED <<store, work, lock, clock, disk, started, pc, st, punits, loc, aborted>>

\* the fetch or the model call of a file unit raises: nothing in
\* generate_file_summary catches it, the run fails
generate_file_summary_raises(r, i) ==
  /\ pc[r] = "generate_file_summary"
  /\ i \in DOMAIN funits[r]
  /\ funits[r][i].status = "pending"
  /\ pc' = [pc EXCEPT ![r] = "failed"]
  /\ hist' = [hist EXCEPT ![r].raised_files = @ \cup {funits[r][i].filepath}]
  /\ aborted' = TRUE
  /\ UNCHANGED <<store, work, lock, clock, disk, started, st, funits, punits, loc>>

\* save_file_summaries up to the first INSERT/UPDATE: CREATE TABLE IF NOT
\* EXISTS (three times) and the SELECT of the repository row
save_file_summaries(r) ==
  /\ pc[r] = "generate_file_summary"
  /\ FanInReady(funits[r])
  /\ store.tables \/ lock = 0
  /\ LET db == CreateTables(store)
         row == SelectRepoByKey(db, st[r].repo_event.key)
     IN /\ store' = db
        /\ work' = IF lock = 0 THEN db ELSE work
        /\ loc' = [loc EXCEPT ![r] =
                     [DefaultLocals EXCEPT
                        !.row = IF row = {} THEN NoRepoId
                                ELSE (CHOOSE x \in row : TRUE).repo_id]]
  /\ st' = [st EXCEPT ![r].file_summaries = ReduceFileUnits(@, funits[r], 1)]
  /\ pc' = [pc EXCEPT ![r] = "save_file_summaries_write"]
  /\ hist' = [hist EXCEPT ![r].sfs_started = TRUE,
                          ![r].changed = @ \/ ~store.tables]
  /\ UNCHANGED <<lock, clock, disk, started, funits, punits, aborted>>

\* the transaction of save_file_summaries: repository row, package rows,
\* file rows, commit; then the conditional edge to the package fan-out
save_file_summaries_write(r) ==
  /\ pc[r] = "save_file_summaries_write"
  /\ lock = 0
  /\ LET key == st[r].repo_event.key
         now == clock + 1
         conflict == loc[r].row = NoRepoId /\ UniqueKeyViolated(store, key)
         repo_id == IF loc[r].row = NoRepoId THEN store.seq_repo + 1 ELSE loc[r].row
         db1 == IF loc[r].row = NoRepoId THEN InsertRepository(store, key, now)
                ELSE TouchRepository(store, repo_id, now)
         pkg_dict == group_by_top_level_packages(st[r].filepaths, key.src_folder)
         res == WritePackages(db1, repo_id, pkg_dict, st[r].file_summaries, now, <<>>)
         state == [st[r] EXCEPT
                     !.repo_id = repo_id,
                     !.packages_impacted = Coll(SeqToSet(res.packages_impacted)),
                     !.filepaths = ReduceChannel(@, Delete),
                     !.file_summaries = ReduceChannel(@, Delete)]
         sends == continue_to_save_package_summaries(state)
     IN IF conflict
        THEN \* UNIQUE(url, src_path, branch) fails: IntegrityError
             /\ pc' = [pc EXCEPT ![r] = "failed"]
             /\ aborted' = TRUE
             /\ UNCHANGED <<store, work, clock, st, punits, hist>>
        ELSE /\ store' = res.db
             /\ work' = res.db
             /\ clock' = now
             /\ st' = [st EXCEPT ![r] = state]
             /\ pc' = [pc EXCEPT ![r] = NextNode(sends)]
             /\ punits' = [punits EXCEPT ![r] = PkgUnits(sends)]
             /\ hist' = [hist EXCEPT
                           ![r].write_done = TRUE,
                           ![r].changed = TRUE,
                           ![r].touched_by_writes = SeqToSet(res.packages_impacted),
                           ![r].dispatched_pkgs = sends.pkgs]
             /\ UNCHANGED aborted
  /\ UNCHANGED <<lock, disk, started, funits, loc>>

\* one unit of the package fan-out: read the package's file rows and its
\* name, summarize the corpus
generate_package_summary(r, p) ==
  /\ pc[r] = "generate_package_summary"
  /\ p \in DOMAIN punits[r]
  /\ punits[r][p].status = "pending"
  /\ LET file_rows == FileRowsOf(store, st[r].repo_id, p)
         rows == PackageRowsOf(store, st[r].repo_id, p)
     IN IF rows = {}
        THEN \* fetchone() is None: TypeError
             /\ pc' = [pc EXCEPT ![r] = "failed"]
             /\ hist' = [hist EXCEPT ![r].raised_pkgs = @ \cup {p}]
             /\ aborted' = TRUE
             /\ UNCHANGED punits
        ELSE LET package_name == (CHOOSE x \in rows : TRUE).package_name
                 psum == [package_id |-> p,
                          summary |-> PackageSummaryText(package_name, file_rows)]
             IN /\ punits' = [punits EXCEPT ![r][p] =
                                [status |-> "done", result |-> <<psum>>]]
                /\ UNCHANGED <<pc, hist, aborted>>
  /\ UNCHANGED <<store, work, lock, clock, disk, started, st, funits, loc>>

\* the model call of a package unit raises: nothing in
\* generate_package_summary catches it, the run fails
generate_package_summary_raises(r, p) ==
  /\ pc[r] = "generate_package_summary"
  /\ p \in DOMAIN punits[r]
  /\ punits[r][p].status = "pending"
  /\ pc' = [pc EXCEPT ![r] = "failed"]
  /\ hist' = [hist EXCEPT ![r].raised_pkgs = @ \cup {p}]
  /\ aborted' = TRUE
  /\ UNCHANGED <<store, work, lock, clock, disk, started, st, funits, punits, loc>>

save_package_summaries(r) ==
  /\ pc[r] = "generate_package_summary"
  /\ FanInReady(punits[r])
  /\ lock = 0
  /\ LET now == clock + 1
         package_summaries ==
           ReducePkgUnits(st[r].package_summaries, punits[r], DOMAIN punits[r])
         db == WritePackageSummaries(store, st[r].repo_id, package_summaries, now)
         written == { psum.package_id : psum \in
                        { q \in SeqToSet(package_summaries) :
                            PackageRowsOf(store, st[r].repo_id, q.package_id) # {} } }
     IN /\ store' = db
        /\ work' = db
        /\ clock' = now
        /\ hist' = [hist EXCEPT ![r].sps_started = TRUE, ![r].persisted = written,
                                ![r].changed = TRUE]
        /\ st' = [st EXCEPT ![r].packages_impacted = Literal("delete"),
                            ![r].package_summaries =
                               ReduceChannel(package_summaries, Delete)]
  /\ pc' = [pc EXCEPT ![r] = "cleanup"]
  /\ UNCHANGED <<lock, disk, started, funits, punits, loc, aborted>>

cleanup(r) ==
  /\ pc[r] = "cleanup"
  /\ disk' = IF st[r].repo_dir # NoDir THEN disk \ {st[r].repo_dir} ELSE disk
  /\ st' = [st EXCEPT ![r].repo_dir = NoDir, ![r].repo_event = NoEvent]
  /\ hist' = [hist EXCEPT ![r].cleaned = TRUE]
  /\ pc' = [pc EXCEPT ![r] = "END"]
  /\ UNCHANGED <<store, work, lock, clock, started, funits, punits, loc, aborted>>

\* the nodes of the Onboard path up to the file fan-out
OnboardNodes(r, paths) ==
  \/ get_filepaths(r, paths)
  \/ get_filepaths_clone_fails(r)

\* the steps of handle_update
UpdateNodes(r) ==
  \/ handle_update(r)
  \/ handle_update_delete(r)
  \/ handle_update_prune(r)
  \/ handle_update_commit(r)

\* the nodes both modes share, from the file fan-out to END
SharedNodes(r) ==
  \/ \E i \in DOMAIN funits[r] : generate_file_summary(r, i)
  \/ \E i \in DOMAIN funits[r] : generate_file_summary_raises(r, i)
  \/ save_file_summaries(r)
  \/ save_file_summaries_write(r)
  \/ \E p \in DOMAIN punits[r] : generate_package_summary(r, p)
  \/ \E p \in DOMAIN punits[r] : generate_package_summary_raises(r, p)
  \/ save_package_summaries(r)
  \/ cleanup(r)

StepOf(r, events, paths, max_runs) ==
  /\ \/ StartRun(r, events, max_runs)
     \/ OnboardNodes(r, paths)
     \/ UpdateNodes(r)
     \/ SharedNodes(r)
  /\ UNCHANGED <<prior, assist, hook, call>>

Step(r, keys, paths, twice, max_runs) ==
  StepOf(r, Events(keys, paths, twice), paths, max_runs)

\* runs of one repository key, one after the other
Next == \E r \in SeqSlots : Step(r, {KeyMain}, Paths, {}, MaxRuns)
Spec == Init /\ [][Next]_vars

\* runs of one repository key, one after the other, whose update events may
\* list a modified path twice
NextTwice == \E r \in SeqSlots : Step(r, {KeyMain}, TwoPaths, OnePath, MaxRuns)
SpecTwice == Init /\ [][NextTwice]_vars

\* runs of two repository keys that share the url, one after the other
NextKeys == \E r \in SeqSlots : Step(r, Keys, OnePath, {}, MaxRunsKeys)
SpecKeys == Init /\ [][NextKeys]_vars

\* runs of one repository key that overlap
NextConc == \E r \in Slots : Step(r, {KeyMain}, OnePath, {}, MaxRuns)
SpecConc == Init /\ [][NextConc]_vars

\* runs of one repository key, one after the other, submitted with any
\* event type
NextTags ==
  \E r \in SeqSlots :
    StepOf(r, Events({KeyMain}, OnePath, {}) \cup OtherEvents({KeyMain}),
           OnePath, MaxRuns)
SpecTags == Init /\ [][NextTags]_vars

\* an Onboard run of KeyMain is started; what the store holds and what the
\* run before it in the slot enumerated and summarized is recorded
StartOnboardAgain(r) ==
  /\ StartRun(r, OnboardEvents({KeyMain}), MaxRuns)
  /\ prior' = [completed |-> (pc[r] = "END"), rows |-> RowsModuloTime(store),
               units |-> funits[r]]

\* Onboard runs of one repository key, one after the other
NextOnboards ==
  /\ \E r \in SeqSlots :
    \/ StartOnboardAgain(r)
    \/ (OnboardNodes(r, Paths) \/ SharedNodes(r)) /\ UNCHANGED prior
  /\ UNCHANGED <<assist, hook, call>>
SpecOnboards == Init /\ [][NextOnboards]_vars

\* ------------------------------------------------------------ AssistGraph
\* SELECT package_id, package_name, summary FROM packages WHERE repo_id = ?
SelectPackages(db, repo_id) == { p \in db.packages : p.repo_id = repo_id }

\* SELECT file_path, summary FROM files WHERE repo_id = ? AND package_id IN (...)
SelectFilesOfPackages(db, repo_id, package_ids) ==
  { f \in db.files : f.repo_id = repo_id /\ f.package_id \in package_ids }

\* the lists of FileSuggestion the ranking capability can answer: any list of
\* up to two distinct paths, whatever corpus it was shown
FileAnswers(paths) ==
  {<<>>} \cup { <<p>> : p \in paths }
         \cup { <<p, q>> : <<p, q>> \in { pq \in paths \X paths : pq[1] # pq[2] } }

\* the package names the ranking capability can answer: any set of names
PackageAnswers(names) == SUBSET (names \cup {UnknownPackage})

\* the graph is invoked with InputState(repo = key)
StartAssist(keys) ==
  /\ assist.pc = "idle"
  /\ \E key \in keys :
       assist' = [DefaultAssist EXCEPT !.pc = "localize_packages", !.repo = key]
  /\ UNCHANGED <<store, work, lock, clock, disk, started, pc, st, funits, punits,
                 loc, hist, aborted, prior>>

\* localize_packages: the SELECT on a missing table raises, row[0] of no row
\* raises, "\n\n".join over a NULL summary raises
localize_packages ==
  /\ assist.pc = "localize_packages"
  /\ LET found == SelectRepoByKey(store, assist.repo)
         repo_id == (CHOOSE row \in found : TRUE).repo_id
         rows == SelectPackages(store, repo_id)
         package_name_index == { <<p.package_name, p.package_id>> : p \in rows }
     IN IF ~store.tables \/ found = {}
           \/ (\E p \in SelectPackages(store, repo_id) : p.summary.null)
        THEN assist' = [assist EXCEPT !.pc = "failed"]
        ELSE \E answer \in PackageAnswers({ p.package_name : p \in rows }) :
               assist' = [assist EXCEPT
                            !.pc = "localize_files",
                            !.repo_id = repo_id,
                            !.package_name_index = Some(package_name_index),
                            !.package_suggestions = Some(answer),
                            !.stage1 = TRUE,
                            !.packages_returned = answer]
  /\ UNCHANGED <<store, work, lock, clock, disk, started, pc, st, funits, punits,
                 loc, hist, aborted, prior>>

\* state.package_name_index[pkg.package_name].package_id
PackageIdOf(package_name_index, package_name) ==
  { e[2] : e \in { d \in package_name_index : d[1] = package_name } }

\* localize_files followed by continue_to_suggest_solution: a suggested name
\* that is not in the index raises KeyError; one Send per suggested file, and
\* no Send ends the run
localize_files(paths) ==
  /\ assist.pc = "localize_files"
  /\ LET index == The(assist.package_name_index)
         names == The(assist.package_suggestions)
         package_ids == UNION { PackageIdOf(index, n) : n \in names }
         rows == SelectFilesOfPackages(store, assist.repo_id, package_ids)
     IN IF \E n \in names : PackageIdOf(index, n) = {}
        THEN assist' = [assist EXCEPT !.pc = "failed"]
        ELSE \E answer \in FileAnswers(paths) :
               assist' = [assist EXCEPT
                            !.pc = IF answer = <<>> THEN "END"
                                   ELSE "fetch_file_content",
                            !.file_suggestions = Some(answer),
                            !.units = [i \in 1..Len(answer) |->
                                         [filepath |-> answer[i],
                                          status |-> "pending", result |-> <<>>]],
                            !.stage2 = TRUE,
                            !.corpus = { f.file_path : f \in rows }]
  /\ UNCHANGED <<store, work, lock, clock, disk, started, pc, st, funits, punits,
                 loc, hist, aborted, prior>>

\* the writes of the fetch_file_content tasks, applied to file_contents
RECURSIVE ReduceFetchUnits(_, _)
ReduceFetchUnits(existing, units) ==
  IF units = <<>> THEN existing
  ELSE ReduceFetchUnits(ReduceChannel(existing, Items(Head(units).result)),
                        Tail(units))

\* fetch_file_content of one Send: get_file_content_from_github returns the
\* decoded content, or "" when the status is not 200
fetch_file_content(i) ==
  /\ assist.pc = "fetch_file_content"
  /\ i \in DOMAIN assist.units
  /\ assist.units[i].status = "pending"
  /\ \E status_ok \in BOOLEAN : \E content \in Contents :
       LET filepath == assist.units[i].filepath
           file_content == IF status_ok THEN content ELSE ""
           done == [assist.units EXCEPT
                      ![i].status = "done",
                      ![i].result = << [filepath |-> filepath,
                                        content |-> file_content] >>]
           last == \A j \in DOMAIN done : done[j].status = "done"
       IN /\ ~status_ok => content = ""
          /\ assist' = [assist EXCEPT
                          !.units = done,
                          !.fetch_failed =
                             IF status_ok THEN @ ELSE @ \cup {filepath},
                          !.file_contents =
                             IF last THEN ReduceFetchUnits(@, done) ELSE @,
                          !.pc = IF last THEN "suggest_solution" ELSE @]
  /\ UNCHANGED <<store, work, lock, clock, disk, started, pc, st, funits, punits,
                 loc, hist, aborted, prior>>

\* requests.get raises (no connection, timeout): nothing catches it, the run
\* fails
fetch_file_content_raises(i) ==
  /\ assist.pc = "fetch_file_content"
  /\ i \in DOMAIN assist.units
  /\ assist.units[i].status = "pending"
  /\ assist' = [assist EXCEPT
                  !.pc = "failed",
                  !.fetch_raised = @ \cup {assist.units[i].filepath}]
  /\ UNCHANGED <<store, work, lock, clock, disk, started, pc, st, funits, punits,
                 loc, hist, aborted, prior>>

\* next((c.content for c in file_contents if c.filepath == filepath), None)
ContentOf(file_contents, filepath) ==
  LET hits == { i \in DOMAIN file_contents : file_contents[i].filepath = filepath }
  IN IF hits = {} THEN None
     ELSE Some(file_contents[CHOOSE i \in hits : \A j \in hits : i <= j].content)

\* the code_files entries of suggest_solution: one for every suggested file
CodeFiles(file_suggestions, file_contents) ==
  [ i \in DOMAIN file_suggestions |->
      [ filepath |-> file_suggestions[i],
        content |-> ContentOf(file_contents, file_suggestions[i]) ] ]

suggest_solution ==
  /\ assist.pc = "suggest_solution"
  /\ assist' = [assist EXCEPT
                  !.pc = "cleanup",
                  !.code_files = CodeFiles(The(assist.file_suggestions),
                                           assist.file_contents),
                  !.solved = TRUE]
  /\ UNCHANGED <<store, work, lock, clock, disk, started, pc, st, funits, punits,
                 loc, hist, aborted, prior>>

\* cleanup of assist_graph
assist_cleanup ==
  /\ assist.pc = "cleanup"
  /\ assist' = [assist EXCEPT
                  !.pc = "END",
                  !.package_suggestions = None,
                  !.package_name_index = None,
                  !.file_suggestions = None,
                  !.file_contents = ReduceChannel(@, Delete),
                  !.cleaned = TRUE]
  /\ UNCHANGED <<store, work, lock, clock, disk, started, pc, st, funits, punits,
                 loc, hist, aborted, prior>>

\* build runs of one key fill the store; one localization run reads it
AssistNodes ==
  \/ StartAssist(Keys)
  \/ localize_packages
  \/ localize_files(TwoPaths)
  \/ \E i \in DOMAIN assist.units : fetch_file_content(i)
  \/ \E i \in DOMAIN assist.units : fetch_file_content_raises(i)
  \/ suggest_solution
  \/ assist_cleanup

NextAssist ==
  \/ /\ assist.pc = "idle"
     /\ \E r \in SeqSlots : Step(r, {KeyMain}, TwoPaths, {}, MaxRunsAssist)
  \/ AssistNodes /\ UNCHANGED <<hook, call>>
SpecAssist == Init /\ [][NextAssist]_vars

\* ---------------------------------------------------------------- webhook
\* handle_push_event from the head commit to the event it submits
handle_push_event ==
  /\ hook.pc = "received" /\ hook.kind = "push"
  /\ IF hook.url = ""
     THEN \* get_repo_info raises before it opens the store
          /\ hook' = [hook EXCEPT !.pc = "error"]
          /\ UNCHANGED <<store, work>>
     ELSE LET db == CreateTables(store)
              rows == SelectRepoByUrl(db, hook.url)
          IN /\ store' = db
             /\ work' = IF lock = 0 THEN db ELSE work
             /\ IF rows = {}
                THEN hook' = [hook EXCEPT !.pc = "error"]
                ELSE \E row \in rows :
                       LET repo == [url |-> hook.url, src_folder |-> row.src_path,
                                    branch |-> row.branch]
                           delta == compute_delta(hook.head, repo)
                       IN IF ~on_onboarded_branch(hook.ref, repo)
                          THEN hook' = [hook EXCEPT !.pc = "ignored"]
                          ELSE hook' = [hook EXCEPT
                                          !.pc = "submitted",
                                          !.repo = repo,
                                          !.event = [event_type |-> "repo-update",
                                                     meta_data |-> delta]]
  /\ UNCHANGED <<lock, clock, disk, started, pc, st, funits, punits,
                 loc, hist, aborted, prior, assist, call>>

\* the store after an Onboard run of KeyMain over the one path
OnboardedStore ==
  LET filepaths == FilterSeq(PathOrder, OnePath)
      db1 == InsertRepository(CreateTables(EmptyDb), KeyMain, 1)
      file_summaries == [ i \in DOMAIN filepaths |->
                            [filepath |-> filepaths[i],
                             summary |-> FileSummaryText("c1")] ]
      pkg_dict == group_by_top_level_packages(filepaths, KeyMain.src_folder)
      res == WritePackages(db1, 1, pkg_dict, file_summaries, 1, <<>>)
      package_summaries ==
        [ i \in DOMAIN res.packages_impacted |->
            [ package_id |-> res.packages_impacted[i],
              summary |-> PackageSummaryText(
                            pkg_dict[i].name,
                            FileRowsOf(res.db, 1, res.packages_impacted[i])) ] ]
  IN WritePackageSummaries(res.db, 1, package_summaries, 2)

\* a push to the onboarded branch of a repository whose source root is src
InitDelta ==
  /\ InitRunsOver(OnboardedStore)
  /\ \E head \in HeadCommits :
       hook = [NoPush EXCEPT !.pc = "received", !.kind = "push",
                             !.url = KeyMain.url,
                             !.ref = BranchRef(KeyMain.branch), !.head = head]
  /\ call = NoCall
NextDelta == handle_push_event
SpecDelta == InitDelta /\ [][NextDelta]_vars

\* the webhook receives a push payload
ReceivePush(heads) ==
  /\ hook.pc = "idle"
  /\ \E url \in PushUrls, ref \in PushRefs, head \in heads :
       hook' = [NoPush EXCEPT !.pc = "received", !.kind = "push", !.url = url,
                              !.ref = ref, !.head = head]
  /\ UNCHANGED <<store, work, lock, clock, disk, started, pc, st, funits, punits,
                 loc, hist, aborted, prior, assist, call>>

\* number of build runs before the push arrives
MaxRunsPush == 2
\* the head commits of the pushes: nothing changed, or one file modified
PushHeads ==
  { NoHeadCommit, [NoHeadCommit EXCEPT !.modified = << <<"src", "/", "a", ".py">> >>] }

\* build runs of two keys that share the url, then a push at any moment
NextPush ==
  \/ /\ hook.pc = "idle"
     /\ \E r \in SeqSlots : Step(r, Keys, OnePath, {}, MaxRunsPush)
  \/ ReceivePush(PushHeads)
  \/ handle_push_event
SpecPush == Init /\ [][NextPush]_vars

\* webhook for a payload with an "issue": only action "opened" is handled;
\* handle_issue_event resolves the repository, tests the mention, reads the
\* token, applies the agent and posts the answer; an exception anywhere in
\* it is answered 'error'
handle_issue_event ==
  /\ hook.pc = "received" /\ hook.kind = "issue"
  /\ IF hook.action # "opened"
     THEN hook' = [hook EXCEPT !.pc = "ignored"] /\ UNCHANGED <<store, work>>
     ELSE IF hook.url = ""
     THEN hook' = [hook EXCEPT !.pc = "error"] /\ UNCHANGED <<store, work>>
     ELSE LET db == CreateTables(store)
              rows == SelectRepoByUrl(db, hook.url)
              combined_text == hook.title \o <<"\n">> \o hook.body
          IN /\ store' = db
             /\ work' = IF lock = 0 THEN db ELSE work
             /\ IF rows = {}
                THEN hook' = [hook EXCEPT !.pc = "error"]
                ELSE IF ~should_process_event(combined_text)
                THEN hook' = [hook EXCEPT !.pc = "ignored"]
                ELSE IF ~hook.token
                THEN hook' = [hook EXCEPT !.pc = "error"]
                ELSE \E row \in rows :
                       LET repo == [url |-> hook.url, src_folder |-> row.src_path,
                                    branch |-> row.branch]
                       IN \/ \* apply_agent raises
                             hook' = [hook EXCEPT !.pc = "error", !.repo = repo,
                                                  !.applied = TRUE]
                          \/ \E result \in AgentResults, posted \in BOOLEAN :
                               LET agent_response == extract_agent_response(result)
                                   respond == agent_response # <<>>
                                              /\ agent_response[1] # ""
                               IN /\ ~respond => posted
                                  /\ hook' = [hook EXCEPT
                                       \* post_issue_comment raises when not posted
                                       !.pc = IF respond /\ ~posted THEN "error"
                                              ELSE "processed issue",
                                       !.repo = repo, !.applied = TRUE,
                                       !.result = result,
                                       !.commented = respond /\ posted]
  /\ UNCHANGED <<lock, clock, disk, started, pc, st, funits, punits,
                 loc, hist, aborted, prior, assist, call>>

\* webhook for a payload that is neither a push nor an issue event
webhook_unsupported ==
  /\ hook.pc = "received" /\ hook.kind = "other"
  /\ hook' = [hook EXCEPT !.pc = "ignored"]
  /\ UNCHANGED <<store, work, lock, clock, disk, started, pc, st, funits, punits,
                 loc, hist, aborted, prior, assist, call>>

\* the issue payloads: action, title and body (None reads as no words), the
\* repository url, and whether GITHUB_TOKEN is set
IssueActions == {"opened", "edited", "closed"}
IssueTexts == {<<>>} \cup { <<w>> : w \in Words }
InitIssue ==
  /\ \E db \in {EmptyDb, OnboardedStore} : InitRunsOver(db)
  /\ \E kind \in {"issue", "other"}, url \in PushUrls, action \in IssueActions,
        title \in IssueTexts, body \in IssueTexts, token \in BOOLEAN :
       hook = [NoPush EXCEPT !.pc = "received", !.kind = kind, !.url = url,
                             !.action = action, !.title = title, !.body = body,
                             !.token = token]
  /\ call = NoCall
NextIssue == handle_issue_event \/ webhook_unsupported
SpecIssue == InitIssue /\ [][NextIssue]_vars

\* ------------------------------------------------------- helper functions
\* the call of a helper function returns
Return(out) ==
  /\ call' = [call EXCEPT !.done = TRUE, !.out = out]
  /\ UNCHANGED <<store, work, lock, clock, disk, started, pc, st, funits, punits,
                 loc, hist, aborted, prior, assist, hook>>

\* generate_package_summary shifts a file summary by one level
shift_headings_call ==
  /\ call.fn = "shift_markdown_headings" /\ ~call.done
  /\ Return(shift_markdown_headings(call.arg, 1))

InitShift ==
  /\ InitRuns
  /\ hook = NoPush
  /\ \E content \in TextsUpTo(MaxTextLen) :
       call = [NoCall EXCEPT !.fn = "shift_markdown_headings", !.arg = content]
NextShift == shift_headings_call
SpecShift == InitShift /\ [][NextShift]_vars

\* the reducer applied to one pair of values
\* the longest list handed to the reducer
MaxItems == 2
ItemValues == {1, 2}
RECURSIVE ListsUpTo(_)
ListsUpTo(n) ==
  IF n = 0 THEN {<<>>}
  ELSE LET shorter == ListsUpTo(n - 1)
       IN shorter \cup { Append(xs, x) : xs \in shorter, x \in ItemValues }
\* Optional[Union[List, Set]]
ExistingValues ==
  {PyNone} \cup { PyList(xs) : xs \in ListsUpTo(MaxItems) }
           \cup { PySet(S) : S \in SUBSET ItemValues }
\* Union[Sequence, Set, Literal["delete"]], and None
NewValues ==
  {PyNone, PyStr("delete")}
    \cup { PyList(xs) : xs \in ListsUpTo(MaxItems) }
    \cup { PyTuple(xs) : xs \in ListsUpTo(MaxItems) }
    \cup { PySet(S) : S \in SUBSET ItemValues }

add_or_delete_call ==
  /\ call.fn = "add_or_delete" /\ ~call.done
  /\ Return(add_or_delete(call.arg.existing, call.arg.new))

InitReduce ==
  /\ InitRuns
  /\ hook = NoPush
  /\ \E existing \in ExistingValues, new \in NewValues :
       call = [NoCall EXCEPT !.fn = "add_or_delete",
                             !.arg = [existing |-> existing, new |-> new]]
NextReduce == add_or_delete_call
SpecReduce == InitReduce /\ [][NextReduce]_vars

\* ================================================================= claims
\* no run is in progress and no run has failed
AllRunsCompleted == ~aborted /\ \A r \in Slots : pc[r] \in {"idle", "END"}

\* the File rows that reference a Package row
FilesOfPackage(db, p) ==
  { f \in db.files : f.repo_id = p.repo_id /\ f.package_id = p.package_id }

\* C1: after any sequence of completed build runs, every Package row has at
\* least one File row referencing it.
C1_NoOrphanPackages ==
  AllRunsCompleted => \A p \in store.packages : FilesOfPackage(store, p) # {}

\* C2: in an Update run whose delta has deleted and modified paths, the
\* packages dispatched to package re-summarization after save_file_summaries
\* are the union of the impacted-by-deletion set and the packages touched by
\* the modified-file writes.
C2_ImpactedIsUnion ==
  \A r \in Slots :
    ( /\ hist[r].mode = "repo-update"
      /\ hist[r].deleted # {}
      /\ hist[r].modified # <<>>
      /\ hist[r].write_done )
    => hist[r].dispatched_pkgs =
         hist[r].impacted_by_deletion \cup hist[r].touched_by_writes

\* the Package rows of db with the identity of p
SamePackage(db, p) ==
  { q \in db.packages : q.repo_id = p.repo_id /\ q.package_id = p.package_id }

\* C3: for any package of the repository an Update is for, when handle_update
\* returns: if the deleted set holds a strict, non-empty subset of the
\* package's files, the Package row is present with a later last-modified time
\* and the remaining File rows are unchanged; if it holds all of the package's
\* files, no Package row is left for it.
C3_DeltaCompleteness ==
  [][ \A r \in Slots :
        (pc[r] = "handle_update_commit" /\ pc'[r] # "handle_update_commit") =>
          \A repo \in SelectRepoByKey(store, hist[r].key) :
            \A p \in { q \in store.packages : q.repo_id = repo.repo_id } :
              LET fs == FilesOfPackage(store, p)
                  del == { f \in fs : f.file_path \in hist[r].deleted }
              IN /\ (del # {} /\ del # fs) =>
                      /\ \E q \in SamePackage(store', p) :
                            q.last_modified_at > p.last_modified_at
                      /\ (fs \ del) \subseteq store'.files
                 /\ (del # {} /\ del = fs) => SamePackage(store', p) = {}
    ]_vars

\* C4: in an Update run with no modified path and a non-empty
\* impacted-by-deletion set, no file unit is dispatched, save_file_summaries
\* does not run, and when the run has ended every impacted package has had its
\* regenerated summary persisted.
C4_PureDeletionRefreshes ==
  \A r \in Slots :
    ( /\ hist[r].mode = "repo-update"
      /\ hist[r].modified = <<>>
      /\ hist[r].impacted_by_deletion # {} )
    => /\ hist[r].file_units = 0
       /\ ~hist[r].sfs_started
       /\ pc[r] \in {"END", "failed"} =>
            hist[r].impacted_by_deletion \subseteq hist[r].persisted

\* C5: when one file unit has raised, the run is not failed, and once the run
\* has ended package aggregation has run and the run's error list has exactly
\* one entry, for the failed file.
C5_FileFailureContained ==
  \A r \in Slots :
    Cardinality(hist[r].raised_files) = 1
    => /\ pc[r] # "failed"
       /\ pc[r] = "END" =>
            /\ hist[r].sps_started
            /\ Len(st[r].file_summary_errors) = 1
            /\ { e.filepath : e \in SeqToSet(st[r].file_summary_errors) }
                 = hist[r].raised_files

\* C6: when the summarization of one impacted package has failed, the run is
\* not failed, and once the run has ended there is an error record for that
\* package and the other dispatched packages have had their summaries
\* persisted.
C6_PackageFailureContained ==
  \A r \in Slots :
    Cardinality(hist[r].raised_pkgs) = 1
    => /\ pc[r] # "failed"
       /\ pc[r] = "END" =>
            /\ { e.package_id : e \in SeqToSet(st[r].package_summary_errors) }
                 = hist[r].raised_pkgs
            /\ (hist[r].dispatched_pkgs \ hist[r].raised_pkgs)
                 \subseteq hist[r].persisted

\* C7: the reconciliation of handle_update is atomic for every other reader
\* of the store: no step takes the readable store from a state in which a
\* package has File rows to one in which it has none and its Package row is
\* still there (files gone, orphan not yet pruned).
C7_ReconciliationAtomic ==
  [][ \A p \in store.packages :
        (FilesOfPackage(store, p) # {} /\ FilesOfPackage(store', p) = {})
        => SamePackage(store', p) = {}
    ]_vars

\* a reconciliation has deleted File rows and not committed yet, while
\* another run is reading the store
C7_Witness ==
  \E r \in Slots, r2 \in Slots :
    /\ r # r2
    /\ pc[r] = "handle_update_prune"
    /\ lock = r
    /\ work.files # store.files
    /\ pc[r2] \in {"handle_update", "generate_package_summary"}

\* C8: an Update run for a key that has no Repository row does not fail,
\* dispatches no file unit and no package unit, and commits no change to the
\* store.
C8_UnknownRepoNoOp ==
  \A r \in Slots :
    (hist[r].mode = "repo-update" /\ hist[r].unknown_key)
    => /\ pc[r] # "failed"
       /\ hist[r].file_units = 0
       /\ hist[r].dispatched_pkgs = {}
       /\ ~hist[r].changed

\* C9: save_file_summaries has not started unless every dispatched
\* generate_file_summary unit has completed, and save_package_summaries has not
\* started unless every dispatched generate_package_summary unit has completed.
C9_FanInBarrier ==
  \A r \in Slots :
    /\ hist[r].sfs_started =>
         /\ Len(funits[r]) = hist[r].file_units
         /\ \A i \in DOMAIN funits[r] : funits[r][i].status = "done"
    /\ hist[r].sps_started =>
         /\ DOMAIN punits[r] = hist[r].dispatched_pkgs
         /\ \A q \in DOMAIN punits[r] : punits[r][q].status = "done"

\* both fan-in nodes have run in a run that dispatched two file units and two
\* package units
C9_Witness ==
  \E r \in Slots :
    /\ hist[r].sfs_started
    /\ hist[r].sps_started
    /\ hist[r].file_units >= 2
    /\ Cardinality(hist[r].dispatched_pkgs) >= 2

\* C10: a run that has reached END has run cleanup, and the checkout it
\* acquired in get_filepaths no longer exists.
C10_CleanupBeforeEnd ==
  \A r \in Slots :
    pc[r] = "END" =>
      /\ hist[r].cleaned
      /\ hist[r].acquired # NoDir => hist[r].acquired \notin disk

\* the Repository, Package and File rows of db that belong to a key other
\* than key
RowsOfOtherKeys(db, key) ==
  LET others == { x \in db.repositories :
                    ~(x.url = key.url /\ x.src_path = key.src_folder
                      /\ x.branch = key.branch) }
      ids == { x.repo_id : x \in others }
  IN [ repositories |-> others,
       packages |-> { q \in db.packages : q.repo_id \in ids },
       files |-> { f \in db.files : f.repo_id \in ids } ]

\* C11: no step of a build run for key K changes a Repository, Package or
\* File row that belongs to another key, and the repository id handle_update
\* resolved for its deletions is the one the file writes of the same run use.
C11_OtherKeysUntouched ==
  [][ \A r \in SeqSlots :
        hist[r].mode # "none" =>
          /\ RowsOfOtherKeys(store, hist[r].key).repositories
               \subseteq store'.repositories
          /\ RowsOfOtherKeys(store, hist[r].key).packages \subseteq store'.packages
          /\ RowsOfOtherKeys(store, hist[r].key).files \subseteq store'.files
          /\ (hist'[r].write_done /\ hist'[r].resolved # NoRepoId) =>
               st'[r].repo_id = hist'[r].resolved
    ]_vars

\* the summary the last entry of file_summaries gives for a path
RECURSIVE LastSummaryOf(_, _, _)
LastSummaryOf(file_summaries, file_path, default) ==
  IF file_summaries = <<>> THEN default
  ELSE LastSummaryOf(Tail(file_summaries), file_path,
                     IF Head(file_summaries).filepath = file_path
                     THEN Head(file_summaries).summary ELSE default)

\* C12: the store never holds two File rows with the same repository id and
\* path, and when save_file_summaries writes a summary for a path that has a
\* row, that row (same file_id) gets the summary written last and the time of
\* the write.
C12_OneFileRowPerPath ==
  [][ /\ \A f \in store'.files : \A g \in store'.files :
           (f.repo_id = g.repo_id /\ f.file_path = g.file_path) => f = g
      /\ \A r \in Slots :
           (~hist[r].write_done /\ hist'[r].write_done) =>
             \A f \in store.files :
               ( /\ f.repo_id = st'[r].repo_id
                 /\ \E i \in DOMAIN st[r].file_summaries :
                      st[r].file_summaries[i].filepath = f.file_path )
               => \E g \in store'.files :
                    /\ g.file_id = f.file_id
                    /\ g.summary = LastSummaryOf(st[r].file_summaries,
                                                 f.file_path, f.summary)
                    /\ g.last_modified_at = clock'
                    /\ g.last_modified_at > f.last_modified_at
    ]_vars

\* a run has written two summaries of one path, listed twice in its
\* file-path list, onto a File row that existed before the run
C12_Witness ==
  \E r \in Slots :
    /\ hist[r].write_done
    /\ Len(hist[r].modified) = 2
    /\ \E f \in store.files :
         /\ f.file_path = hist[r].modified[1]
         /\ f.last_modified_at > f.created_at

\* C13: the store never holds two Repository rows with the same (url,
\* source-root path, branch), also when runs for one key interleave, and no
\* step removes a Repository row.
C13_OneRepositoryRowPerKey ==
  [][ /\ \A x \in store'.repositories : \A y \in store'.repositories :
           (x.url = y.url /\ x.src_path = y.src_path /\ x.branch = y.branch)
           => x = y
      /\ { x.repo_id : x \in store.repositories }
           \subseteq { x.repo_id : x \in store'.repositories }
    ]_vars

\* two Onboard runs for one key interleaved: both found no Repository row, one
\* inserted it and the INSERT of the other failed
C13_Witness ==
  \E r \in Slots, r2 \in Slots :
    /\ r # r2
    /\ hist[r].mode = "repo-onboard" /\ hist[r2].mode = "repo-onboard"
    /\ hist[r].key = hist[r2].key
    /\ hist[r2].write_done
    /\ hist[r].sfs_started /\ ~hist[r].write_done /\ pc[r] = "failed"
    /\ Cardinality(store.repositories) = 1

\* C14: when an Onboard run has ended after a completed Onboard run of the
\* same key, and it enumerated the same paths in the same order and got the
\* same summary (or none) for each as that run, the File and Package rows are
\* those the store held when it started, last-modified times aside.
C14_OnboardTwiceSameRows ==
  \A r \in SeqSlots :
    ( /\ pc[r] = "END"
      /\ prior.completed
      /\ funits[r] = prior.units )
    => RowsModuloTime(store) = prior.rows

\* a second Onboard run has rewritten the rows of two files in two packages
\* and ended, with the same paths and summaries as the run before it
C14_Witness ==
  \E r \in SeqSlots :
    /\ pc[r] = "END"
    /\ prior.completed
    /\ funits[r] = prior.units
    /\ hist[r].sps_started
    /\ Cardinality(hist[r].dispatched_pkgs) >= 2
    /\ Cardinality({ f \in store.files : f.last_modified_at > f.created_at }) >= 2

\* the File rows of the packages that stage 1 returned
FilesOfSuggestedPackages(db, repo_id, package_names) ==
  { f \in db.files :
      /\ f.repo_id = repo_id
      /\ \E p \in db.packages : /\ p.repo_id = repo_id
                                /\ p.package_id = f.package_id
                                /\ p.package_name \in package_names }

\* C15: in every localization run, whatever the ranking capability answers,
\* each filepath of file_suggestions is the path of a File row whose package
\* is one of the packages stage 1 returned.
C15_FilesWithinSuggestedPackages ==
  (assist.stage2 /\ assist.file_suggestions # None
                 /\ assist.package_suggestions # None) =>
    \A filepath \in SeqToSet(The(assist.file_suggestions)) :
      \E f \in FilesOfSuggestedPackages(store, assist.repo_id,
                                        The(assist.package_suggestions)) :
        f.file_path = filepath

\* C16: when the fetch of one suggested file fails in stage 3, the
\* localization run does not fail, the solution-generation context has no
\* entry for that file, and the entries of the other files carry the content
\* that was fetched for them.
C16_FailedFetchOmitted ==
  /\ (assist.fetch_failed \cup assist.fetch_raised # {}) => assist.pc # "failed"
  /\ assist.solved =>
       \A i \in DOMAIN assist.code_files :
         LET entry == assist.code_files[i]
         IN /\ entry.filepath \notin assist.fetch_failed
            /\ entry.content = Some(assist.units[i].result[1].content)

\* C17: when stage 1 returns an empty package list the run does not raise,
\* stage 2 runs over an empty corpus, and the run reaches END through the
\* remaining stages (suggest_solution and cleanup).
C17_NoPackagesIsValid ==
  (assist.stage1 /\ assist.packages_returned = {}) =>
    /\ assist.pc # "failed"
    /\ assist.stage2 => assist.corpus = {}
    /\ assist.pc = "END" => (assist.solved /\ assist.cleaned)

\* a path lies within the source folder, and a path ends with '.py'
WithinSrcFolder(filepath, repo) == startswith(filepath, repo.src_folder \o <<"/">>)
EndsWithPy(filepath) == filepath # <<>> /\ filepath[Len(filepath)] = ".py"

\* the renamed entries that name a new and an old file
FullRenames(head_commit) ==
  { item \in SeqToSet(head_commit.renamed) :
      item.is_dict /\ item.previous_filename # NoFilename }

RECURSIVE NewNames(_)
NewNames(renamed_files) ==
  IF renamed_files = <<>> THEN <<>>
  ELSE (IF Head(renamed_files) \in FullRenames([renamed |-> renamed_files])
        THEN <<Head(renamed_files).filename>> ELSE <<>>)
         \o NewNames(Tail(renamed_files))

RECURSIVE OldNames(_)
OldNames(renamed_files) ==
  IF renamed_files = <<>> THEN <<>>
  ELSE (IF Head(renamed_files) \in FullRenames([renamed |-> renamed_files])
        THEN <<Head(renamed_files).previous_filename>> ELSE <<>>)
         \o OldNames(Tail(renamed_files))

\* the payload that lists the new name of every such entry as modified and
\* its old name as removed, instead of the entry
RenamesAsModifiedAndRemoved(head_commit) ==
  [ added |-> head_commit.added,
    modified |-> head_commit.modified \o NewNames(head_commit.renamed),
    removed |-> head_commit.removed \o OldNames(head_commit.renamed),
    renamed |-> FilterSeq(head_commit.renamed,
                          SeqToSet(head_commit.renamed) \ FullRenames(head_commit)) ]

\* C18: the delta of a payload with a renamed entry {filename: new,
\* previous_filename: old} equals the delta of the payload that lists new as
\* modified and old as removed; for names within the source folder that end
\* with '.py', new is in 'modified' and old is in 'deleted'.
C18_RenameIsModifiedPlusDeleted ==
  hook.pc = "submitted" =>
    LET delta == hook.event.meta_data
    IN /\ delta = compute_delta(RenamesAsModifiedAndRemoved(hook.head), hook.repo)
       /\ \A item \in FullRenames(hook.head) :
            /\ (WithinSrcFolder(item.filename, hook.repo) /\ EndsWithPy(item.filename))
                 => item.filename \in SeqToSet(delta.modified)
            /\ (WithinSrcFolder(item.previous_filename, hook.repo)
                  /\ EndsWithPy(item.previous_filename))
                 => item.previous_filename \in SeqToSet(delta.deleted)

\* a rename of one '.py' file of the source folder to another was processed
C18_Witness ==
  /\ hook.pc = "submitted"
  /\ \E item \in FullRenames(hook.head) :
       /\ WithinSrcFolder(item.filename, hook.repo) /\ EndsWithPy(item.filename)
       /\ WithinSrcFolder(item.previous_filename, hook.repo)
       /\ EndsWithPy(item.previous_filename)
       /\ item.filename # item.previous_filename
       /\ hook.event.meta_data.modified = <<item.filename>>
       /\ hook.event.meta_data.deleted = <<item.previous_filename>>

\* C19: 'modified' and 'deleted' of compute_delta hold only paths that lie
\* within the repository's src_folder and end with '.py'; every other added,
\* modified, removed or renamed path of the payload is in neither list.
C19_OnlyPyFilesOfSrcFolder ==
  hook.pc = "submitted" =>
    \A filepath \in SeqToSet(hook.event.meta_data.modified)
                      \cup SeqToSet(hook.event.meta_data.deleted) :
      WithinSrcFolder(filepath, hook.repo) /\ EndsWithPy(filepath)

\* the event types START has an edge for
EventTypes == {"repo-onboard", "repo-update"}

\* C20: START sends a run to get_filepaths for 'repo-onboard' and to
\* handle_update for 'repo-update'; a run with any other event type fails at
\* once: the store and the working directory are as before, and no node of
\* that run ever executes.
C20_StartRouting ==
  [][\A r \in SeqSlots :
       LET event_type == st'[r].repo_event.event_type
       IN /\ started' = started + 1 =>
               /\ event_type = "repo-onboard" => pc'[r] = "get_filepaths"
               /\ event_type = "repo-update" => pc'[r] = "handle_update"
               /\ event_type \notin EventTypes =>
                    /\ pc'[r] = "failed"
                    /\ store' = store /\ work' = work /\ disk' = disk
          /\ (hist[r].mode \notin EventTypes /\ started' = started) =>
               UNCHANGED <<store, work, disk, pc, st, funits, punits, loc, hist>>
    ]_vars

\* a run with another event type has failed over a store that earlier runs
\* have filled
C20_Witness ==
  \E r \in SeqSlots :
    /\ pc[r] = "failed"
    /\ st[r].repo_event.event_type = "repo-delete"
    /\ store.files # {}
    /\ funits[r] = <<>> /\ punits[r] = <<>>

\* C21: when the repository cannot be cloned in get_filepaths the run aborts
\* with the error, no fan-out unit is dispatched, and no Repository, Package
\* or File row is created or modified.
C21_CloneFailureAborts ==
  [][\A r \in SeqSlots :
       (pc[r] = "get_filepaths" /\ pc'[r] # "get_filepaths"
          /\ hist'[r].acquired = NoDir) =>
         /\ pc'[r] = "failed" /\ aborted'
         /\ funits'[r] = <<>> /\ punits'[r] = <<>>
         /\ hist'[r].file_units = 0 /\ hist'[r].dispatched_pkgs = {}
         /\ store' = store /\ work' = work
    ]_vars

\* an Onboard run has failed in get_filepaths over a store that an earlier
\* run filled
C21_Witness ==
  \E r \in SeqSlots :
    /\ pc[r] = "failed"
    /\ hist[r].mode = "repo-onboard"
    /\ hist[r].acquired = NoDir
    /\ store.files # {} /\ store.packages # {}

\* what remains of a path under the source root when the root is stripped
StripRoot(file_path, src_folder) ==
  SubSeq(file_path, Len(src_folder) + 1, Len(file_path))

\* the first remaining segment if a separator remains, else the sentinel
GroupOf(file_path, src_folder, sentinel) ==
  LET rest == StripRoot(file_path, src_folder)
  IN IF Len(rest) > 1 THEN rest[1] ELSE sentinel

\* the package names stored for the File rows agree with GroupOf
GroupedAs(sentinel) ==
  \A f \in store.files : \A p \in store.packages : \A rp \in store.repositories :
    (p.repo_id = f.repo_id /\ p.package_id = f.package_id /\ rp.repo_id = f.repo_id)
      => p.package_name = GroupOf(f.file_path, rp.src_path, sentinel)

\* C22: a path is grouped under the first segment that remains after the
\* source root is stripped, and under the sentinel package name "root" when
\* no separator remains (a file directly under the source root).
C22_GroupingSentinelRoot == GroupedAs("root")

\* run r commits handle_update, or commits the writes of save_file_summaries
CommitsBuildStep(r) ==
  \/ pc[r] = "handle_update_commit" /\ pc'[r] # "handle_update_commit"
  \/ ~hist[r].write_done /\ hist'[r].write_done

\* C23: on the logical clock, every build run whose key has a Repository row
\* (Onboard, Update with modifications, with only deletions, with an empty
\* delta) strictly advances that row's last-modified time when it commits,
\* and no step changes the creation time of a Repository row.
C23_RepositoryTimeAdvances ==
  [][ /\ \A r \in SeqSlots :
           CommitsBuildStep(r) =>
             \A row \in SelectRepoByKey(store, hist[r].key) :
               \E next \in store'.repositories :
                 /\ next.repo_id = row.repo_id
                 /\ next.last_modified_at > row.last_modified_at
      /\ \A row \in store.repositories :
           \E next \in store'.repositories :
             next.repo_id = row.repo_id /\ next.created_at = row.created_at
    ]_vars

RECURSIVE Lines(_)
\* the lines of a text
Lines(text) ==
  LET n == RestOfLine(text, 1)
  IN IF n = Len(text) THEN <<text>>
     ELSE <<SubSeq(text, 1, n)>> \o Lines(SubSeq(text, n + 2, Len(text)))

\* the level of an ATX heading line (up to three spaces, one to six "#",
\* then a space or the end of the line), 0 for any other line
HeadingLevel(line) ==
  LET indent == RunLen(line, 1, {" "})
      hashes == RunLen(line, indent + 1, {"#"})
      after == indent + hashes + 1
  IN IF indent <= 3 /\ hashes \in 1..6 /\ (after > Len(line) \/ line[after] = " ")
     THEN hashes ELSE 0

\* line k opens or closes a fenced code block, or lies inside one
Fenced(lines, k) ==
  LET marks == { j \in 1..k : lines[j] # <<>> /\ lines[j][1] = "~" }
  IN (lines[k] # <<>> /\ lines[k][1] = "~") \/ Cardinality(marks) % 2 = 1

\* the heading level of every line of a document
Levels(text) ==
  LET lines == Lines(text)
  IN [ k \in 1..Len(lines) |->
         IF Fenced(lines, k) THEN 0 ELSE HeadingLevel(lines[k]) ]

\* C24: shift_markdown_headings with increment 1 raises the level of every
\* heading of a document by exactly one and leaves the other lines as they
\* are, so that the shifted document has no level-1 heading and the level-1
\* headings of the nested corpus are exactly the '# <path>' lines.
C24_ShiftIsOneLevelDeeper ==
  (call.fn = "shift_markdown_headings" /\ call.done) =>
    LET before == Lines(call.arg)
        after == Lines(call.out)
    IN /\ Len(after) = Len(before)
       /\ \A k \in 1..Len(before) :
            IF Levels(call.arg)[k] > 0
            THEN Levels(call.out)[k] = Levels(call.arg)[k] + 1
            ELSE after[k] = before[k]
       /\ \A k \in 1..Len(after) : Levels(call.out)[k] # 1

\* C25: in every reachable state, also when the steps of two Update runs of
\* one repository interleave, every package id that a pending or finished
\* package-summarization unit, or the package-summary write after them,
\* refers to is the id of a Package row of the store.
C25_NoDanglingPackageId ==
  \A r \in Slots :
    pc[r] = "generate_package_summary" =>
      \A p \in DOMAIN punits[r] : PackageRowsOf(store, st[r].repo_id, p) # {}

\* the stored summary of package p is the summary of all its File rows
SummaryIsCurrent(db, repo_id, p) ==
  \A row \in PackageRowsOf(db, repo_id, p) :
    row.summary = PackageSummaryText(row.package_name, FileRowsOf(db, repo_id, p))

\* C26: in every build run the File writes of the run are committed before
\* a package unit of the run reads the store, each package unit's corpus is
\* all the File rows its package owns at that moment, and after a run
\* without unit failures the stored summary of each impacted package is the
\* summary of its complete current file set.
C26_PackageSummaryOfAllFiles ==
  \A r \in SeqSlots :
    /\ pc[r] = "generate_package_summary" =>
         /\ lock = 0 /\ work = store
         /\ hist[r].write_done =>
              \A i \in DOMAIN funits[r] : \A fs \in SeqToSet(funits[r][i].result) :
                \E f \in store.files : /\ f.repo_id = st[r].repo_id
                                       /\ f.file_path = fs.filepath
                                       /\ f.summary = fs.summary
         /\ \A p \in DOMAIN punits[r] : \A ps \in SeqToSet(punits[r][p].result) :
              ps.summary.corpus = FileRowsOf(store, st[r].repo_id, p)
    /\ (pc[r] = "END" /\ hist[r].mode \in EventTypes) =>
         \A p \in hist[r].impacted_by_deletion \cup hist[r].touched_by_writes :
           SummaryIsCurrent(store, st[r].repo_id, p)

\* the transient channels a stage clears hold an empty collection
FileChannelsEmpty(state) == state.filepaths = <<>> /\ state.file_summaries = <<>>
PackageChannelsEmpty(state) ==
  state.packages_impacted = Coll({}) /\ state.package_summaries = <<>>

\* C27: after save_file_summaries the state's filepaths and file_summaries
\* are empty collections, after save_package_summaries its
\* packages_impacted and package_summaries are empty collections, and at
\* END none of these four channels holds anything.
C27_TransientStateCleared ==
  \A r \in SeqSlots :
    /\ (hist[r].write_done /\ pc[r] \in {"generate_package_summary", "cleanup", "END"})
         => FileChannelsEmpty(st[r])
    /\ (hist[r].sps_started /\ pc[r] \in {"cleanup", "END"})
         => PackageChannelsEmpty(st[r])
    /\ (pc[r] = "END" /\ hist[r].mode \in EventTypes)
         => FileChannelsEmpty(st[r]) /\ PackageChannelsEmpty(st[r])

\* C28: add_or_delete(existing, new), for existing a list or a set: when
\* new is "delete" the result is the empty collection of existing's kind;
\* otherwise when new is None or empty the result is existing; otherwise a
\* list and a sequence give the list followed by the sequence's items in
\* order, two sets give their union, and a list with a set or a set with a
\* sequence raises TypeError.
C28_ReducerCases ==
  (call.fn = "add_or_delete" /\ call.done /\ call.arg.existing.type \in {"list", "set"}) =>
    LET existing == call.arg.existing
        new == call.arg.new
    IN IF new = PyStr("delete")
       THEN call.out = IF existing.type = "list" THEN PyList(<<>>) ELSE PySet({})
       ELSE IF new = PyNone \/ (new.items = <<>> /\ new.members = {})
       THEN call.out = existing
       ELSE IF existing.type = "list" /\ new.type \in {"list", "tuple"}
       THEN call.out = PyList(existing.items \o new.items)
       ELSE IF existing.type = "set" /\ new.type = "set"
       THEN call.out = PySet(existing.members \cup new.members)
       ELSE call.out = TypeError
\* a list was extended by the items of a tuple, in order
C28_Witness ==
  /\ call.fn = "add_or_delete" /\ call.done
  /\ call.arg.existing = PyList(<<2>>)
  /\ call.arg.new = PyTuple(<<1, 2>>)
  /\ call.out = PyList(<<2, 1, 2>>)

\* the orders in which the results of the units D can arrive
Orders(D) ==
  { order \in [1..Cardinality(D) -> D] :
      \A i, j \in 1..Cardinality(D) : order[i] = order[j] => i = j }
\* the channel after the unit results were reduced in the given order
RECURSIVE ReduceInOrder(_, _, _)
ReduceInOrder(existing, units, order) ==
  IF order = <<>> THEN existing
  ELSE ReduceInOrder(ReduceChannel(existing, Items(units[Head(order)].result)),
                     units, Tail(order))
SameMultiset(xs, ys) ==
  \A v \in SeqToSet(xs) \cup SeqToSet(ys) :
    Cardinality({ i \in DOMAIN xs : xs[i] = v }) = Cardinality({ i \in DOMAIN ys : ys[i] = v })
\* the store save_file_summaries commits when the channel holds file_summaries
FileFanInStore(r, file_summaries) ==
  LET key == st[r].repo_event.key
      db == CreateTables(store)
      row == SelectRepoByKey(db, key)
      repo_id == IF row = {} THEN db.seq_repo + 1 ELSE (CHOOSE x \in row : TRUE).repo_id
      db1 == IF row = {} THEN InsertRepository(db, key, clock + 1)
             ELSE TouchRepository(db, repo_id, clock + 1)
      pkg_dict == group_by_top_level_packages(st[r].filepaths, key.src_folder)
  IN WritePackages(db1, repo_id, pkg_dict, file_summaries, clock + 1, <<>>).db
\* the store save_package_summaries commits when the channel holds package_summaries
PackageFanInStore(r, package_summaries) ==
  WritePackageSummaries(store, st[r].repo_id, package_summaries, clock + 1)

\* the store with the AUTOINCREMENT ids of the File rows left out
WithoutFileIds(db) ==
  [db EXCEPT !.files =
     { [repo_id |-> f.repo_id, package_id |-> f.package_id,
        file_path |-> f.file_path, summary |-> f.summary,
        created_at |-> f.created_at, last_modified_at |-> f.last_modified_at]
       : f \in @ }]

DeletedAndModified(r) ==
  IF hist[r].mode = "repo-update"
  THEN SeqToSet(hist[r].modified) \cap hist[r].deleted ELSE {}

C31_StageOneNeverRaises ==
  (assist.pc = "failed" /\ ~assist.stage1) =>
    (~store.tables \/ SelectRepoByKey(store, assist.repo) = {})

\* C32: when the stage-1 ranking returns a package name that is not a key
\* of package_name_index, localize_files does not fail the run, and the
\* stage-2 corpus holds exactly the files of the packages whose names are
\* known.
C32_UnknownPackageNameSkipped ==
  (assist.stage1 /\ UnknownPackage \in assist.packages_returned) =>
    /\ assist.pc = "failed" => assist.stage2
    /\ assist.stage2 =>
         assist.corpus =
           { f.file_path : f \in
               { g \in store.files :
                   /\ g.repo_id = assist.repo_id
                   /\ \E p \in SelectPackages(store, assist.repo_id) :
                        /\ p.package_id = g.package_id
                        /\ p.package_name \in assist.packages_returned } }

\* the File rows of a path
RowsOfPath(db, path) == { f \in db.files : f.file_path = path }
\* the paths of a run for which a unit returned a summary
SummarizedPaths(r) ==
  { funits[r][i].filepath : i \in { j \in DOMAIN funits[r] : funits[r][j].result # <<>> } }

\* C33: a file unit whose fetched content is empty or whitespace-only
\* returns no summary, adds no error record and leaves the run where it is
\* (it does not fail it), and the write of save_file_summaries leaves the
\* File rows of that path as they were.
C33_BlankContentIsSkipped ==
  [][ \A r \in SeqSlots :
        /\ \A path \in hist'[r].blank_files \ hist[r].blank_files :
             /\ \E i \in DOMAIN funits[r] :
                  /\ funits[r][i].filepath = path /\ funits[r][i].status = "pending"
                  /\ funits'[r][i].status = "done" /\ funits'[r][i].result = <<>>
             /\ st'[r] = st[r] /\ pc'[r] = pc[r] /\ aborted' = aborted
        /\ (pc[r] = "save_file_summaries_write" /\ pc'[r] # pc[r]) =>
             \A path \in hist[r].blank_files \ SummarizedPaths(r) :
               RowsOfPath(store', path) = RowsOfPath(store, path)
        /\ hist'[r].blank_files # {} => st'[r].file_summary_errors = <<>>
    ]_vars
\* a run with a blank file and a summarized file has ended: the summarized
\* file has a row, the blank one has none
C33_Witness ==
  \E r \in SeqSlots :
    /\ pc[r] = "END" /\ hist[r].write_done
    /\ \E path \in hist[r].blank_files : RowsOfPath(store, path) = {}
    /\ \E path \in SummarizedPaths(r) : RowsOfPath(store, path) # {}

\* C34: while the file units of an Update run are pending or done, the run
\* has acquired no checkout and every unit that ran fetched its content
\* remotely; while the file units of an Onboard run are pending, the
\* checkout that get_filepaths of the same run acquired exists, and every
\* unit that ran read from it.
C34_ContentSourceByMode ==
  \A r \in Slots :
    pc[r] = "generate_file_summary" =>
      IF hist[r].mode = "repo-update"
      THEN /\ hist[r].acquired = NoDir /\ st[r].repo_dir = NoDir
           /\ hist[r].read_local = {}
      ELSE /\ hist[r].acquired # NoDir /\ st[r].repo_dir = hist[r].acquired
           /\ hist[r].fetched_remote = {}
           /\ st[r].repo_dir \in disk

MaxCallers == 2
Callers == 1..MaxCallers
RuntimeFns == {"apply_agent", "update_agent_knowledge", "review_pr"}
NoClient == [fn |-> "none", pc |-> "returned", assistant |-> 0, thread |-> 0]
RuntimeCall(server, procs) ==
  [fn |-> "langgraph_runtime", done |-> FALSE, server |-> server, procs |-> procs]
RuntimeStep(server, procs) ==
  /\ call' = [call EXCEPT !.server = server, !.procs = procs]
  /\ UNCHANGED <<store, work, lock, clock, disk, started, pc, st, funits, punits,
                 loc, hist, aborted, prior, assist, hook>>

\* initialize: client.assistants.create, then client.threads.create
initialize(c) ==
  /\ call.fn = "langgraph_runtime" /\ call.procs[c].pc = "initialize"
  /\ \/ \* assistants.create raises
        RuntimeStep(call.server, [call.procs EXCEPT ![c].pc = "raised"])
     \/ \* threads.create raises
        RuntimeStep([call.server EXCEPT !.assistants = @ \cup {c}],
                    [call.procs EXCEPT ![c].pc = "raised", ![c].assistant = c])
     \/ RuntimeStep([call.server EXCEPT !.assistants = @ \cup {c},
                                        !.threads = @ \cup {c}],
                    [call.procs EXCEPT ![c].pc = "runs.wait", ![c].assistant = c,
                                       ![c].thread = c])

\* client.runs.wait returns the final state or raises
runs_wait(c) ==
  /\ call.fn = "langgraph_runtime" /\ call.procs[c].pc = "runs.wait"
  /\ \E next \in {"cleanup", "raised"} :
       RuntimeStep(call.server, [call.procs EXCEPT ![c].pc = next])

\* cleanup(client, assistant, thread): client.threads.delete, then
\* client.assistants.delete; the entry point returns the final state after it
runtime_cleanup(c) ==
  /\ call.fn = "langgraph_runtime" /\ call.procs[c].pc = "cleanup"
  /\ LET me == call.procs[c]
     IN \/ \* threads.delete raises
           RuntimeStep(call.server, [call.procs EXCEPT ![c].pc = "raised"])
        \/ \* assistants.delete raises
           RuntimeStep([call.server EXCEPT !.threads = @ \ {me.thread}],
                       [call.procs EXCEPT ![c].pc = "raised"])
        \/ RuntimeStep([call.server EXCEPT !.threads = @ \ {me.thread},
                                           !.assistants = @ \ {me.assistant}],
                       [call.procs EXCEPT ![c].pc = "returned"])

InitRuntime ==
  /\ InitRuns
  /\ hook = NoPush
  /\ \E fns \in [Callers -> RuntimeFns] :
       call = RuntimeCall([assistants |-> {}, threads |-> {}],
                          [c \in Callers |->
                             [NoClient EXCEPT !.fn = fns[c], !.pc = "initialize"]])
NextRuntime ==
  \E c \in Callers : initialize(c) \/ runs_wait(c) \/ runtime_cleanup(c)
\* every call that can take a step takes it
SpecRuntime ==
  /\ InitRuntime /\ [][NextRuntime]_vars
  /\ \A c \in Callers :
       WF_vars(initialize(c) \/ runs_wait(c) \/ runtime_cleanup(c))

\* -------------------------------------------------------------- review_pr_graph
\* The files of a pull request as get_pr_files lists them: status, and
\* whether the filename starts with the source folder.
MaxPrFiles == 2
PrFiles ==
  [status : {"added", "modified", "renamed", "removed"}, in_src : BOOLEAN]
PrFileLists == UNION { [1..n -> PrFiles] : n \in 0..MaxPrFiles }
\* the code_files string: the heading, then one fenced block per added,
\* modified or renamed file under the source folder
code_files_str(pr_files) ==
  <<"## Code for relevant files">>
    \o FilterSeq(pr_files, { file \in PrFiles :
          file.status \in {"added", "modified", "renamed"} /\ file.in_src })
\* the phrase of the message of an exception of model.ainvoke
ErrorMessages ==
  {"context length", "Context Length", "Token Limit", "input is too long",
   "rate limit"}
\* is_context_limit_error: one of three phrases is in str(error).lower(); the
\* variant before it looks for the phrases in the message as it is written
is_context_limit_error_exact(error) ==
  error \in {"context length", "token limit", "input is too long"}
is_context_limit_error(error) ==
  lower(error) \in {"context length", "token limit", "input is too long"}

ReviewCall(pr_files) ==
  [fn |-> "review_pull_request", done |-> FALSE, pc |-> "invoke",
   pr_files |-> pr_files, invoked |-> <<>>, errors |-> <<>>, raised |-> ""]
ReviewStep(c) ==
  /\ call' = c
  /\ UNCHANGED <<store, work, lock, clock, disk, started, pc, st, funits, punits,
                 loc, hist, aborted, prior, assist, hook>>

\* review_pull_request up to the outcome of the first model.ainvoke
review_pull_request ==
  /\ call.fn = "review_pull_request" /\ call.pc = "invoke"
  /\ LET invoked == Append(call.invoked, code_files_str(call.pr_files))
     IN \/ ReviewStep([call EXCEPT !.invoked = invoked, !.pc = "returned",
                                   !.done = TRUE])
        \/ \E e \in ErrorMessages :
             ReviewStep([call EXCEPT
               !.invoked = invoked, !.errors = Append(@, e),
               !.pc = IF is_context_limit_error(e) THEN "retry" ELSE "raised",
               !.raised = IF is_context_limit_error(e) THEN "" ELSE e,
               !.done = ~is_context_limit_error(e)])

\* the second model.ainvoke, inside the except clause, with code_files ""
review_pull_request_retry ==
  /\ call.fn = "review_pull_request" /\ call.pc = "retry"
  /\ LET invoked == Append(call.invoked, <<>>)
     IN \/ ReviewStep([call EXCEPT !.invoked = invoked, !.pc = "returned",
                                   !.done = TRUE])
        \/ \E e \in ErrorMessages :
             ReviewStep([call EXCEPT !.invoked = invoked,
                                    !.errors = Append(@, e), !.pc = "raised",
                                    !.raised = e, !.done = TRUE])

InitReview ==
  /\ InitRuns
  /\ hook = NoPush
  /\ \E pr_files \in PrFileLists : call = ReviewCall(pr_files)
NextReview == review_pull_request \/ review_pull_request_retry
SpecReview == InitReview /\ [][NextReview]_vars

\* ------------------------------------------- store/sqlite_store update helpers
\* SQLiteStore.get_package_ids_for_files
get_package_ids_for_files(db, repo_id, file_paths) ==
  IF file_paths = {} THEN {}
  ELSE { f.package_id : f \in { g \in db.files :
                                   g.repo_id = repo_id /\ g.file_path \in file_paths } }

\* SQLiteStore.delete_files
delete_files(db, repo_id, file_paths) ==
  IF file_paths # {}
  THEN [db EXCEPT !.files =
          { f \in @ : ~(f.repo_id = repo_id /\ f.file_path \in file_paths) }]
  ELSE db

\* SQLiteStore.get_valid_package_ids
get_valid_package_ids(db, repo_id) ==
  { f.package_id : f \in { g \in db.files : g.repo_id = repo_id } }

\* SQLiteStore.delete_orphan_packages
delete_orphan_packages(db, repo_id, valid_package_ids) ==
  IF valid_package_ids # {}
  THEN [db EXCEPT !.packages =
          { p \in @ : ~(p.repo_id = repo_id
                          /\ p.package_id \notin valid_package_ids) }]
  ELSE [db EXCEPT !.packages = { p \in @ : p.repo_id # repo_id }]

\* the four calls in a row, and touched & surviving
StoreReconcile(db, repo_id, file_paths) ==
  LET touched == get_package_ids_for_files(db, repo_id, file_paths)
      db1 == delete_files(db, repo_id, file_paths)
      valid == get_valid_package_ids(db1, repo_id)
      db2 == delete_orphan_packages(db1, repo_id, valid)
  IN [db |-> db2, impacted |-> touched \cap valid]

\* step 2 of handle_update on one connection: nothing without deleted files
InlineReconcile(db, repo_id, deleted_files, now) ==
  IF deleted_files = {} THEN [db |-> db, impacted |-> {}]
  ELSE LET package_ids_with_file_deletes ==
             PackageIdsOfFiles(db, repo_id, deleted_files)
           db1 == DeleteFiles(db, repo_id, deleted_files)
           remaining == PackageIdsWithFiles(db1, repo_id)
           db2 == DeleteOrphanPackages(db1, repo_id, remaining)
           impacted == package_ids_with_file_deletes \cap remaining
       IN [db |-> IF impacted # {}
                  THEN TouchPackages(db2, repo_id, impacted, now) ELSE db2,
           impacted |-> impacted]

\* the store after an Onboard of key at time now that listed the paths of
\* listed and summarized those of summarized (the others were blank)
StoreAfterOnboard(db, key, listed, summarized, now) ==
  LET filepaths == FilterSeq(PathOrder, listed)
      kept == FilterSeq(PathOrder, summarized)
      db1 == InsertRepository(CreateTables(db), key, now)
      file_summaries == [ i \in DOMAIN kept |->
                            [filepath |-> kept[i],
                             summary |-> FileSummaryText("c1")] ]
      pkg_dict == group_by_top_level_packages(filepaths, key.src_folder)
  IN WritePackages(db1, db1.seq_repo, pkg_dict, file_summaries, now, <<>>).db

reconcile_call ==
  /\ call.fn = "reconcile" /\ ~call.done
  /\ Return([store |-> StoreReconcile(call.arg.db, call.arg.repo_id,
                                      call.arg.deleted),
             inline |-> InlineReconcile(call.arg.db, call.arg.repo_id,
                                        call.arg.deleted, 3)])

InitReconcile ==
  /\ InitRuns
  /\ hook = NoPush
  /\ \E listed \in SUBSET Paths, other \in SUBSET OnePath, deleted \in SUBSET Paths :
       \E summarized \in SUBSET listed :
         LET db1 == StoreAfterOnboard(EmptyDb, KeyMain, listed, summarized, 1)
             db2 == StoreAfterOnboard(db1, KeyDev, OnePath, other, 2)
         IN call = [NoCall EXCEPT !.fn = "reconcile",
                      !.arg = [db |-> db2, repo_id |-> 1, deleted |-> deleted]]
NextReconcile == reconcile_call
SpecReconcile == InitReconcile /\ [][NextReconcile]_vars

\* the issue of the payload names the agent in its title or body, in any case
MentionsAgent ==
  \E text \in {hook.title, hook.body} :
    \E i \in DOMAIN text : text[i] \in {"heurisdev", "HeurisDev"}
IssueAnswered == hook.kind = "issue" /\ hook.pc # "received"

\* C36 (as stated): an issue event runs the agent only if its action is
\* 'opened' and its title or body mentions the agent id in any case; every
\* other issue event is answered 'ignored' with no run and no comment; a
\* comment is posted only when the last message of the run is an AI message.
C36_OtherIssueEventsIgnored ==
  IssueAnswered =>
    /\ hook.applied => hook.action = "opened" /\ MentionsAgent
    /\ ~(hook.action = "opened" /\ MentionsAgent) =>
         hook.pc = "ignored" /\ ~hook.applied /\ ~hook.commented
    /\ hook.commented =>
         hook.result # <<>> /\ hook.result[Len(hook.result)].type = "ai"

\* C36 (amended): as above, except that an opened issue of a repository that
\* is not onboarded (or of a payload without a repository url) is answered
\* 'error' whether it mentions the agent or not; every other issue event
\* without the mention or with another action is answered 'ignored'; in both
\* cases no run and no comment; an opened issue that mentions the agent is
\* never answered 'ignored'.
C36_IssueRunOnlyWhenOpenedAndMentioned ==
  IssueAnswered =>
    LET onboarded == hook.url # "" /\ SelectRepoByUrl(store, hook.url) # {}
    IN /\ hook.applied => hook.action = "opened" /\ MentionsAgent
       /\ ~(hook.action = "opened" /\ MentionsAgent) =>
            /\ ~hook.applied /\ ~hook.commented
            /\ hook.pc = IF hook.action = "opened" /\ ~onboarded
                         THEN "error" ELSE "ignored"
       /\ hook.pc = "ignored" => ~(hook.action = "opened" /\ MentionsAgent)
       /\ hook.commented =>
            hook.result # <<>> /\ hook.result[Len(hook.result)].type = "ai"
C36_Witness ==
  /\ IssueAnswered /\ hook.action = "opened"
  /\ hook.title = <<"HeurisDev">> /\ hook.body = <<>>
  /\ hook.applied /\ hook.commented /\ hook.pc = "processed issue"


\* C37: every assistant and every thread that initialize creates for a call
\* of apply_agent, update_agent_knowledge or review_pr is eventually deleted,
\* whether client.runs.wait returns or raises.
C37_CreatedIsEventuallyDeleted ==
  \A c \in Callers :
    /\ (c \in call.server.assistants) ~> (c \notin call.server.assistants)
    /\ (c \in call.server.threads) ~> (c \notin call.server.threads)


\* the messages that name a context limit, in any case
ContextLimitMessages ==
  {"context length", "Context Length", "Token Limit", "input is too long"}

\* C38: review_pull_request invokes the model at most twice; the second
\* invocation happens exactly when the first failed with a context-limit
\* error, and it is given the empty code-files section while the first was
\* given the section of the pull request's files; any other failure of the
\* first invocation, and any failure of the retry, is raised to the caller.
C38_RetryOnceOnContextLimit ==
  LET n == Len(call.invoked)
      failed1 == Len(call.errors) >= 1
  IN /\ n <= 2 /\ Len(call.errors) <= n
     /\ n >= 1 => call.invoked[1] = code_files_str(call.pr_files)
     /\ n = 2 => /\ failed1 /\ call.errors[1] \in ContextLimitMessages
                 /\ call.invoked[2] = <<>>
     /\ failed1 /\ call.errors[1] \in ContextLimitMessages =>
          call.pc = "retry" \/ n = 2
     /\ failed1 /\ call.errors[1] \notin ContextLimitMessages =>
          n = 1 /\ call.pc = "raised" /\ call.raised = call.errors[1]
     /\ Len(call.errors) = 2 =>
          call.pc = "raised" /\ call.raised = call.errors[2]
     /\ call.pc = "raised" => call.raised = call.errors[Len(call.errors)]
     /\ call.pc = "returned" => Len(call.errors) = n - 1
C38_Witness ==
  /\ call.pc = "raised" /\ Len(call.invoked) = 2
  /\ call.errors = <<"Context Length", "rate limit">>
  /\ Len(call.invoked[1]) = 3


\* the two reconciliations leave the same File rows, the same Package rows up
\* to last_modified_at, and the same touched & surviving set
SameReconciliation ==
  /\ call.out.store.db.files = call.out.inline.db.files
  /\ RowsModuloTime(call.out.store.db).packages
       = RowsModuloTime(call.out.inline.db).packages
  /\ call.out.store.impacted = call.out.inline.impacted
\* package rows of the repository without a file row, before the call
OrphansBefore ==
  { p \in call.arg.db.packages :
      p.repo_id = call.arg.repo_id
      /\ ~\E f \in call.arg.db.files :
            f.repo_id = p.repo_id /\ f.package_id = p.package_id }

\* C39: for every store and every deleted-path list, the sequence
\* get_package_ids_for_files, delete_files, get_valid_package_ids,
\* delete_orphan_packages leaves the same File and Package rows and gives the
\* same touched & surviving set as the inline reconciliation of handle_update.
C39_StoreSequenceEqualsInline ==
  call.fn = "reconcile" /\ call.done => SameReconciliation

\* the two agree for every non-empty deleted-path list, and for the empty
\* list when the repository has no package without files; with the empty
\* list handle_update changes nothing, and the sequence deletes exactly the
\* packages of the repository that have no file
ReconciliationsAgreeWhenDeleting ==
  call.fn = "reconcile" /\ call.done =>
    /\ call.arg.deleted # {} \/ OrphansBefore = {} => SameReconciliation
    /\ call.arg.deleted = {} =>
         /\ call.out.inline.db = call.arg.db
         /\ call.out.store.db.files = call.arg.db.files
         /\ call.out.store.db.packages = call.arg.db.packages \ OrphansBefore
         /\ call.out.store.impacted = {} /\ call.out.inline.impacted = {}

====
